---- MODULE Spec2Model ----
(***************************************************************************)
(* Lambda Complex: the runtime control plane.                              *)
(*                                                                         *)
(*   Spec         the coordinator chain: seeding by startApplication, the  *)
(*                coordinator handler pipeline, the self-chain and the     *)
(*                application confirmation file.                           *)
(*   SpecInvoker  the invoker handler.                                     *)
(*   SpecWrapper  the wrapper installed around a component's handler, and  *)
(*                the input queue it consumes from.                        *)
(***************************************************************************)
EXTENDS Integers, Sequences, FiniteSets, TLC

\* ---------------------------------------------------------------------------
\* Bounds.
\* ---------------------------------------------------------------------------

\* Coordinator invocations that can be running at the same time.
MaxCoordinators == 2
\* Horizon of the generation counter: events past it are not followed.
MaxGeneration == 2
\* Asynchronous coordinator invocations accepted but not yet started.
MaxInFlight == 2
\* Messages the coordinator concurrency queue can hold.
MaxQueueDepth == 2
\* config.coordinator.coordinatorConcurrency.
coordinatorConcurrency == 2
\* config.coordinator.maxInvocationCount.
maxInvocationCount == 2
\* Invoker invocations that can be running at the same time.
MaxInvokers == 2
\* Largest count of one component in the event of the first invoker.
MaxCount == 2
\* Timeout of the coordinator function, in units of 5000 milliseconds.
Timeout == 4
\* Largest config.coordinator.maxInvocationCount given to the splitter.
MaxBatch == 6
\* Largest count of one component given to the splitter.
MaxSplitCount == 12
\* Largest queuedMessageCount in an application status.
MaxQueued == 3
\* Largest concurrency and maxConcurrency in an application status.
MaxConcurrent == 3
\* Largest config.coordinator.coordinatorConcurrency the counts are shared by.
MaxShare == 2
\* Destinations a routing can name or a routing function return.
MaxDestinations == 2
\* Functions given to executeConcurrently.
MaxFunctions == 4
\* Messages a request of a message count can find.
MaxMeasured == 1
\* Largest config.coordinator.minInterval of a deployment, in seconds.
MaxMinInterval == 2
\* Longest time a request for the confirmation file takes, in seconds.
MaxLatency == 2
\* Different errors, and different results, a retried function can call back
\* with.
MaxOutcomes == 3
\* config.coordinator.maxApiConcurrency, the largest limit of API requests at
\* any one time.
maxApiConcurrency == 2
\* Messages on the input queue of the wrapped component.
MaxMessages == 2
\* Calls the wrapped handler makes on the context it is given.
MaxCalls == 2

\* ---------------------------------------------------------------------------
\* Values.
\* ---------------------------------------------------------------------------

\* A count that was never measured: status data starts as null.
Null == -1
\* The event startApplication sends carries no generation property.
NoGeneration == -1

NoError == "none"

Coordinators == 1 .. MaxCoordinators
Invokers == 1 .. MaxInvokers

Messages == 1 .. MaxMessages

\* constants.componentType, the types a wrapped component can have.
EVENT_FROM_MESSAGE == "eventFromMessage"
EVENT_FROM_INVOCATION == "eventFromInvocation"

\* No component is deployed behind the wrapper.
NoComponent == [type |-> "none"]

\* Names of the eventFromMessage components of config.components.
ComponentNames == <<"a", "b">>
EventGenerations == {NoGeneration} \cup (1 .. MaxGeneration)

\* The 5000 milliseconds ensureInterval keeps clear of the time limit, in
\* units of 5000 milliseconds.
SafetyMargin == 1

\* Values of config.coordinator.minInterval, in the same units: one that
\* leaves time to spare and one as long as the timeout.
MinIntervals == {SafetyMargin + 1, Timeout}

VARIABLES
  \* Coordinator chain.
  coordinators,      \* per running coordinator invocation: its position and locals
  inFlight,          \* coordinator events accepted by Lambda, by event.generation
  concurrencyQueue,  \* messages in the coordinator concurrency queue
  confirmUploads,    \* successful uploads of the application confirmation file
  seedsLeft,         \* iterations startApplication has yet to run
  startError,        \* the error startApplication called back with
  config,            \* config.coordinator of the deployed application
  \* Invoker.
  invokers,          \* per running invoker invocation: its position and locals
  invokerEvents,     \* invoker events accepted by Lambda and not yet started
  invokerQueue,      \* messages in the invoker concurrency queue
  invoked,           \* per component, the invocations of its function accepted
  \* Wrapper of a component.
  component,         \* lc.component: the definition of the wrapped component
  arnMapLoaded,      \* lc.arnMap is in place in this container
  wrapper,           \* the invocation of the wrapped handle: position and lc state
  inputQueue,        \* per message of the component's queue: where it is
  componentQueue,    \* messages in the component's concurrency queue
  failedBefore,      \* messages a handler run has reported a failure for
  \* Invocation counts.
  splitter,          \* a call of splitInvocationCounts: arguments and result
  counter,           \* a call of getInvocationCounts: arguments and result
  \* Routing of a component's result.
  router,            \* a call of lc.sendData: arguments and what it did
  executor,          \* a call of executeConcurrently: its queue of functions
  \* Concurrency queues.
  uncleaned,         \* per queue, the messages of invocations that have ended
  \* Shared utilities and deployment.
  retrier,           \* a call of utilities.retry: its attempts and callback
  deployer           \* a call of the switchover function of a deployment

coordVars == <<coordinators, inFlight, concurrencyQueue, confirmUploads,
               seedsLeft, startError, config>>

invokerVars == <<invokers, invokerEvents, invokerQueue, invoked>>

wrapperVars == <<component, arnMapLoaded, wrapper, inputQueue, componentQueue,
                 failedBefore>>

countVars == <<splitter, counter, router, executor>>

ledgerVars == <<uncleaned>>

deployVars == <<retrier, deployer>>

vars == <<coordVars, invokerVars, wrapperVars, countVars, ledgerVars, deployVars>>

notCoordVars == <<invokerVars, wrapperVars, countVars, ledgerVars, deployVars>>
notInvokerVars == <<coordVars, wrapperVars, countVars, ledgerVars, deployVars>>
notWrapperVars == <<coordVars, invokerVars, countVars, ledgerVars, deployVars>>
notCountVars == <<coordVars, invokerVars, wrapperVars, ledgerVars, deployVars>>
notDeployVars == <<coordVars, invokerVars, wrapperVars, countVars, ledgerVars>>

\* A message is left in a concurrency queue by an invocation that ends after
\* a successful increment without a successful decrement; it stays until the
\* end of its retention period.
Left(queue, leaves) ==
  IF leaves THEN [uncleaned EXCEPT ![queue] = @ + 1] ELSE uncleaned

\* ---------------------------------------------------------------------------
\* Coordinator handler.
\* ---------------------------------------------------------------------------

\* event.generation = event.generation || 0
GenerationOrZero(g) == IF g = NoGeneration \/ g = 0 THEN 0 ELSE g

\* The increment left out: the event is passed on as it came in.
IncrementGenerationForgotten(g) == GenerationOrZero(g)

\* event.generation++
IncrementGeneration(g) == GenerationOrZero(g) + 1

\* A slot in which no coordinator invocation is running.
IdleCoordinator ==
  [ pc          |-> "idle",
    incoming    |-> NoGeneration,  \* event.generation as received
    generation  |-> 0,             \* event.generation after the increment
    concurrency |-> Null,          \* applicationStatus coordinator concurrency
    error       |-> NoError,       \* error handed to the async.series callback
    invokeError |-> NoError,       \* error of the invocation of the successor
    chained     |-> NoGeneration,  \* event.generation passed to the successor
    steps       |-> {},            \* pipeline steps that were started
    failed      |-> {},            \* pipeline steps in which a request failed
    increments  |-> 0,             \* calls of incrementConcurrencyCount
    decrements  |-> 0,             \* calls of decrementConcurrencyCount
    extras      |-> 0,             \* additional coordinators invoked
    issued      |-> Null,          \* calls of utilities.invoke by the fourth task
    issuedEvent |-> NoGeneration,  \* event.generation those calls were given
    chains      |-> 0,             \* invocations of the successor
    uploads     |-> 0,             \* calls of uploadApplicationConfirmation
    dones       |-> 0,             \* calls of context.done
    doneError   |-> NoError,       \* error passed to context.done
    elapsed     |-> 0,             \* time since startTime
    sleepAt     |-> Null,          \* elapsed when ensureInterval was called
    slept       |-> Null,          \* delay ensureInterval gave to setTimeout
    chainedAt   |-> Null ]         \* elapsed when the successor was invoked

InFlightTotal == inFlight[NoGeneration] +
  (LET Sum[g \in 0 .. MaxGeneration] ==
         IF g = 0 THEN 0 ELSE inFlight[g] + Sum[g - 1]
   IN Sum[MaxGeneration])

\* Lambda accepts an asynchronous invocation carrying event.generation = g.
\* Events at the horizon are accepted and not followed any further.
Accept(flight, g, n) ==
  IF g = NoGeneration \/ g < MaxGeneration
    THEN [flight EXCEPT ![g] = @ + n]
    ELSE flight

Room == MaxInFlight - InFlightTotal

\* exports.handler, up to the start of async.series: Lambda starts the handler
\* on an accepted event, in the first slot that has no invocation running.
HandlerStart(s) ==
  \E g \in EventGenerations :
    /\ coordinators[s].pc \in {"idle", "done"}
    /\ \A t \in 1 .. s - 1 : coordinators[t].pc \notin {"idle", "done"}
    /\ inFlight[g] > 0
    /\ inFlight' = [inFlight EXCEPT ![g] = @ - 1]
    /\ coordinators' = [coordinators EXCEPT ![s] =
         [IdleCoordinator EXCEPT !.pc = "loadArnMap",
                                 !.incoming = g,
                                 !.generation = IncrementGeneration(g)]]
    /\ UNCHANGED <<concurrencyQueue, confirmUploads, seedsLeft, startError, config, notCoordVars>>

\* context.done(error, ...)
Done(c, error) ==
  [c EXCEPT !.pc = "done", !.dones = @ + 1, !.doneError = error]

\* The load handing its error to the series instead of returning from the
\* handler: the final callback then runs as for any other failed task.
LoadArnMapIntoSeries(s) ==
  LET c == coordinators[s] IN
  /\ c.pc = "loadArnMap"
  /\ \E ok \in BOOLEAN :
       coordinators' = [coordinators EXCEPT ![s] =
         IF ok
           THEN [c EXCEPT !.pc = "increment", !.steps = @ \cup {"loadArnMap"}]
           ELSE [c EXCEPT !.pc = "chain", !.steps = @ \cup {"loadArnMap"},
                          !.failed = @ \cup {"loadArnMap"},
                          !.error = "loadArnMap"]]
  /\ UNCHANGED <<inFlight, concurrencyQueue, confirmUploads, seedsLeft, startError, config, notCoordVars>>

\* First task of the series: utilities.loadArnMap.
LoadArnMap(s) ==
  LET c == coordinators[s] IN
  /\ c.pc = "loadArnMap"
  /\ \E ok \in BOOLEAN :
       coordinators' = [coordinators EXCEPT ![s] =
         IF ok
           THEN [c EXCEPT !.pc = "increment", !.steps = @ \cup {"loadArnMap"}]
           ELSE Done([c EXCEPT !.steps = @ \cup {"loadArnMap"},
                               !.failed = @ \cup {"loadArnMap"}],
                     "loadArnMap")]
  /\ UNCHANGED <<inFlight, concurrencyQueue, confirmUploads, seedsLeft, startError, config, notCoordVars>>

\* A failed task ending the invocation on the spot, as the load does.
SeriesNextAbort(c, step, error, next) ==
  IF error = NoError
    THEN [c EXCEPT !.pc = next, !.steps = @ \cup {step}]
    ELSE [c EXCEPT !.pc = "done", !.steps = @ \cup {step},
                   !.failed = @ \cup {step}, !.error = error,
                   !.dones = @ + 1, !.doneError = error]

\* async.series: a task that calls back with an error skips the remaining
\* tasks and goes to the final callback.
SeriesNext(c, step, error, next) ==
  IF error = NoError
    THEN [c EXCEPT !.pc = next, !.steps = @ \cup {step}]
    ELSE [c EXCEPT !.pc = "chain", !.steps = @ \cup {step},
                   !.failed = @ \cup {step}, !.error = error]

\* The increment logging its error and letting the series go on, with nothing
\* to tell the decrement that there is no message of this invocation.
IncrementErrorDropped(s) ==
  LET c == [coordinators[s] EXCEPT !.increments = @ + 1] IN
  /\ coordinators[s].pc = "increment"
  /\ \/ /\ concurrencyQueue < MaxQueueDepth
        /\ concurrencyQueue' = concurrencyQueue + 1
        /\ coordinators' = [coordinators EXCEPT ![s] =
             SeriesNext(c, "increment", NoError, "measure")]
     \/ /\ UNCHANGED concurrencyQueue
        /\ coordinators' = [coordinators EXCEPT ![s] =
             [SeriesNext(c, "increment", NoError, "measure")
                EXCEPT !.failed = @ \cup {"increment"}]]
  /\ UNCHANGED <<inFlight, confirmUploads, seedsLeft, startError, config, notCoordVars>>

\* Second task: utilities.incrementConcurrencyCount.
Increment(s) ==
  LET c == [coordinators[s] EXCEPT !.increments = @ + 1] IN
  /\ coordinators[s].pc = "increment"
  /\ \/ /\ concurrencyQueue < MaxQueueDepth
        /\ concurrencyQueue' = concurrencyQueue + 1
        /\ coordinators' = [coordinators EXCEPT ![s] =
             SeriesNext(c, "increment", NoError, "measure")]
     \/ /\ UNCHANGED concurrencyQueue
        /\ coordinators' = [coordinators EXCEPT ![s] =
             SeriesNext(c, "increment", "increment", "measure")]
  /\ UNCHANGED <<inFlight, confirmUploads, seedsLeft, startError, config, notCoordVars>>

\* Third task: exports.determineApplicationStatus. A failed request is logged
\* and leaves the count null; the task never calls back with an error.
Measure(s) ==
  LET c == coordinators[s] IN
  /\ c.pc = "measure"
  /\ \E ok \in BOOLEAN :
       coordinators' = [coordinators EXCEPT ![s] =
         IF ok
           THEN [SeriesNext(c, "measure", NoError, "redundancy")
                   EXCEPT !.concurrency = concurrencyQueue]
           ELSE [SeriesNext(c, "measure", NoError, "redundancy")
                   EXCEPT !.failed = @ \cup {"measure"}]]
  /\ UNCHANGED <<inFlight, concurrencyQueue, confirmUploads, seedsLeft, startError, config, notCoordVars>>

\* The repair without its check of event.generation.
AdditionalCoordinatorsAnyGeneration(generation, concurrency) ==
  IF concurrency = Null THEN 0
  ELSE IF concurrency >= coordinatorConcurrency THEN 0
  ELSE coordinatorConcurrency - concurrency

\* A redundancy step that is skipped in every generation.
AdditionalCoordinatorsNone(generation, concurrency) == 0

\* exports.ensureCoordinatorConcurrency: how many coordinators to invoke.
AdditionalCoordinators(generation, concurrency) ==
  IF generation < 2 THEN 0
  ELSE IF concurrency = Null THEN 0
  ELSE IF concurrency >= coordinatorConcurrency THEN 0
  ELSE coordinatorConcurrency - concurrency

\* Fourth task: exports.ensureCoordinatorConcurrency. async.times issues all
\* the invocations; it calls back with an error if one of them failed.
Redundancy(s) ==
  LET c == coordinators[s]
      n == AdditionalCoordinators(c.generation, c.concurrency) IN
  /\ c.pc = "redundancy"
  /\ \E accepted \in 0 .. n :
       /\ accepted <= Room
       /\ inFlight' = Accept(inFlight, c.generation, accepted)
       /\ coordinators' = [coordinators EXCEPT ![s] =
            SeriesNext([c EXCEPT !.extras = @ + accepted,
                                 !.issued = n,
                                 !.issuedEvent = IF n > 0 THEN c.generation
                                                          ELSE NoGeneration],
                       "redundancy",
                       IF accepted < n THEN "redundancy" ELSE NoError,
                       "dispatch")]
  /\ UNCHANGED <<concurrencyQueue, confirmUploads, seedsLeft, startError, config, notCoordVars>>

\* Fifth task: common.invokeApplicationLambdaFunctions. executeConcurrently
\* logs a failed invocation and calls back without an error.
Dispatch(s) ==
  LET c == coordinators[s] IN
  /\ c.pc = "dispatch"
  /\ \E ok \in BOOLEAN :
       coordinators' = [coordinators EXCEPT ![s] =
         IF ok
           THEN SeriesNext(c, "dispatch", NoError, "sleep")
           ELSE [SeriesNext(c, "dispatch", NoError, "sleep")
                   EXCEPT !.failed = @ \cup {"dispatch"}]]
  /\ UNCHANGED <<inFlight, concurrencyQueue, confirmUploads, seedsLeft, startError, config, notCoordVars>>

Max(a, b) == IF a > b THEN a ELSE b

Min(a, b) == IF a < b THEN a ELSE b

\* ensureInterval waiting out the interval whatever time is left.
ensureIntervalUncapped(elapsed, interval, remainingTime) ==
  Max(0, interval - elapsed)

\* common.ensureInterval: the delay given to setTimeout, from the time
\* elapsed since startTime and context.getRemainingTimeInMillis().
ensureInterval(elapsed, interval, remainingTime) ==
  LET remainingWaitTime == Max(0, interval - elapsed)
      remainingLimitTime == Max(0, remainingTime - SafetyMargin) IN
  IF remainingWaitTime > remainingLimitTime
    THEN remainingLimitTime
    ELSE remainingWaitTime

\* Time passes in a running invocation, up to the timeout of the function,
\* while the requests of determineApplicationStatus are outstanding. The tasks
\* after the sleep take no time, the least they can add to the interval.
Tick(s) ==
  LET c == coordinators[s] IN
  /\ c.pc = "measure"
  /\ c.elapsed < Timeout
  /\ coordinators' = [coordinators EXCEPT ![s].elapsed = @ + 1]
  /\ UNCHANGED <<inFlight, concurrencyQueue, confirmUploads, seedsLeft,
                 startError, config, notCoordVars>>

\* Sixth task: common.ensureInterval, a setTimeout that cannot fail.
Sleep(s) ==
  LET c == coordinators[s]
      delay == ensureInterval(c.elapsed, config.minInterval, Timeout - c.elapsed) IN
  /\ c.pc = "sleep"
  /\ coordinators' = [coordinators EXCEPT ![s] =
       SeriesNext([c EXCEPT !.sleepAt = c.elapsed,
                            !.slept = delay,
                            !.elapsed = @ + delay],
                  "sleep", NoError, "decrement")]
  /\ UNCHANGED <<inFlight, concurrencyQueue, confirmUploads, seedsLeft, startError, config, notCoordVars>>

\* The errors utilities.decrementConcurrencyCount calls back with: of the
\* receive, of a receive that found no message, of the delete.
DecrementErrors == {"receiveMessage", "noMessage", "deleteMessage"}

\* A decrement whose error is logged and kept from the series.
DecrementErrorLogged(s) ==
  LET c == [coordinators[s] EXCEPT !.decrements = @ + 1] IN
  /\ coordinators[s].pc = "decrement"
  /\ \/ /\ concurrencyQueue > 0
        /\ concurrencyQueue' = concurrencyQueue - 1
        /\ coordinators' = [coordinators EXCEPT ![s] =
             SeriesNext(c, "decrement", NoError, "chain")]
     \/ /\ UNCHANGED concurrencyQueue
        /\ coordinators' = [coordinators EXCEPT ![s] =
             [SeriesNext(c, "decrement", NoError, "chain")
                EXCEPT !.failed = @ \cup {"decrement"}]]
  /\ UNCHANGED <<inFlight, confirmUploads, seedsLeft, startError, config, notCoordVars>>

\* Seventh task: utilities.decrementConcurrencyCount. The receive fails, finds
\* no message, or hands over a message that the delete removes or fails on.
Decrement(s) ==
  LET c == [coordinators[s] EXCEPT !.decrements = @ + 1] IN
  /\ coordinators[s].pc = "decrement"
  /\ \/ /\ concurrencyQueue > 0
        /\ concurrencyQueue' = concurrencyQueue - 1
        /\ coordinators' = [coordinators EXCEPT ![s] =
             SeriesNext(c, "decrement", NoError, "chain")]
     \/ /\ UNCHANGED concurrencyQueue
        /\ \E error \in DecrementErrors :
             /\ (error = "deleteMessage") => concurrencyQueue > 0
             /\ coordinators' = [coordinators EXCEPT ![s] =
                  SeriesNext(c, "decrement", error, "chain")]
  /\ UNCHANGED <<inFlight, confirmUploads, seedsLeft, startError, config, notCoordVars>>

\* The test without the generation: every coordinator without error uploads.
SkipConfirmationAnyGeneration(error, invokeError, generation) ==
  error # NoError \/ invokeError # NoError

\* The test without the invocation error: a coordinator that failed to invoke
\* its successor still uploads.
SkipConfirmationInvokeIgnored(error, invokeError, generation) ==
  error # NoError \/ generation > 1

\* The test of the final callback: is the confirmation file left alone?
SkipConfirmation(error, invokeError, generation) ==
  error # NoError \/ invokeError # NoError \/ generation > 1

\* error || invokeError
\* context.done given the error of the series alone.
FirstErrorOfSeries(error, invokeError) == error

\* error || invokeError
FirstError(error, invokeError) ==
  IF error # NoError THEN error ELSE invokeError

\* The invocation has a message in the concurrency queue that it has not
\* removed: its increment succeeded and its decrement failed or was not run.
LeavesMessage(c) ==
  /\ "increment" \in c.steps \ c.failed
  /\ "decrement" \notin c.steps \ c.failed

\* The final callback of the series: invoke the next coordinator, then either
\* call context.done or go on to upload the confirmation file.
Chain(s) ==
  LET c == [coordinators[s] EXCEPT !.chains = @ + 1,
                                   !.steps = @ \cup {"chain"},
                                   !.chainedAt = coordinators[s].elapsed]
      After(d) ==
        IF SkipConfirmation(d.error, d.invokeError, d.generation)
          THEN Done(d, FirstError(d.error, d.invokeError))
          ELSE [d EXCEPT !.pc = "confirm"] IN
  /\ coordinators[s].pc = "chain"
  /\ \/ /\ Room > 0
        /\ inFlight' = Accept(inFlight, c.generation, 1)
        /\ coordinators' = [coordinators EXCEPT ![s] =
             After([c EXCEPT !.chained = c.generation])]
     \/ /\ UNCHANGED inFlight
        /\ coordinators' = [coordinators EXCEPT ![s] =
             After([c EXCEPT !.invokeError = "invoke",
                             !.failed = @ \cup {"chain"}])]
  /\ uncleaned' = Left("coordinator",
                       coordinators'[s].pc = "done" /\ LeavesMessage(c))
  /\ UNCHANGED <<concurrencyQueue, confirmUploads, seedsLeft, startError, config,
                 invokerVars, wrapperVars, countVars, deployVars>>

\* utilities.uploadApplicationConfirmation and its callback.
Confirm(s) ==
  LET c == [coordinators[s] EXCEPT !.uploads = @ + 1,
                                   !.steps = @ \cup {"confirm"}] IN
  /\ coordinators[s].pc = "confirm"
  /\ \/ /\ confirmUploads' = confirmUploads + 1
        /\ coordinators' = [coordinators EXCEPT ![s] = Done(c, NoError)]
     \/ /\ UNCHANGED confirmUploads
        /\ coordinators' = [coordinators EXCEPT ![s] =
             Done([c EXCEPT !.failed = @ \cup {"confirm"}], "upload")]
  /\ uncleaned' = Left("coordinator", LeavesMessage(c))
  /\ UNCHANGED <<inFlight, concurrencyQueue, seedsLeft, startError, config,
                 invokerVars, wrapperVars, countVars, deployVars>>

\* A message left in the concurrency queue by an invocation that has ended
\* reaches the end of its retention period.
Expire ==
  /\ uncleaned.coordinator > 0
  /\ concurrencyQueue > 0
  /\ concurrencyQueue' = concurrencyQueue - 1
  /\ uncleaned' = [uncleaned EXCEPT !.coordinator = @ - 1]
  /\ UNCHANGED <<coordinators, inFlight, confirmUploads, seedsLeft, startError, config,
                 invokerVars, wrapperVars, countVars, deployVars>>

\* ---------------------------------------------------------------------------
\* Starting the application.
\* ---------------------------------------------------------------------------

\* exports.startApplication: one iteration of async.timesSeries, which stops
\* at the first invocation that fails.
StartApplication ==
  /\ seedsLeft > 0
  /\ \/ /\ Room > 0
        /\ inFlight' = Accept(inFlight, NoGeneration, 1)
        /\ seedsLeft' = seedsLeft - 1
        /\ UNCHANGED startError
     \/ /\ seedsLeft' = 0
        /\ startError' = "invoke"
        /\ UNCHANGED inFlight
  /\ UNCHANGED <<coordinators, concurrencyQueue, confirmUploads, config, notCoordVars>>

\* ---------------------------------------------------------------------------
\* Invocation counts.
\* ---------------------------------------------------------------------------

\* exports.sumOfInvocationCounts
RECURSIVE sumOfInvocationCounts(_)
sumOfInvocationCounts(invocationCounts) ==
  IF invocationCounts = <<>>
    THEN 0
    ELSE Head(invocationCounts).count + sumOfInvocationCounts(Tail(invocationCounts))

\* The inner loop taking the counts from the front of the array.
RECURSIVE PullCountsFromFront(_, _, _)
PullCountsFromFront(invocationCounts, pulledCounts, max) ==
  LET spaceLeftInInvoker == max - sumOfInvocationCounts(pulledCounts) IN
  IF ~(spaceLeftInInvoker > 0 /\ invocationCounts # <<>>)
    THEN [invocationCounts |-> invocationCounts, pulledCounts |-> pulledCounts]
    ELSE IF Head(invocationCounts).count > spaceLeftInInvoker
      THEN PullCountsFromFront(
             [invocationCounts EXCEPT ![1].count = @ - spaceLeftInInvoker],
             Append(pulledCounts,
                    [Head(invocationCounts) EXCEPT !.count = spaceLeftInInvoker]),
             max)
      ELSE PullCountsFromFront(
             Tail(invocationCounts),
             Append(pulledCounts, Head(invocationCounts)),
             max)

\* The inner loop leaving a count as it was after taking a part of it.
RECURSIVE PullCountsNotReduced(_, _, _)
PullCountsNotReduced(invocationCounts, pulledCounts, max) ==
  LET spaceLeftInInvoker == max - sumOfInvocationCounts(pulledCounts)
      last == Len(invocationCounts) IN
  IF ~(spaceLeftInInvoker > 0 /\ last > 0)
    THEN [invocationCounts |-> invocationCounts, pulledCounts |-> pulledCounts]
    ELSE IF invocationCounts[last].count > spaceLeftInInvoker
      THEN [invocationCounts |-> invocationCounts,
            pulledCounts |-> Append(pulledCounts,
              [invocationCounts[last] EXCEPT !.count = spaceLeftInInvoker])]
      ELSE PullCountsNotReduced(
             SubSeq(invocationCounts, 1, last - 1),
             Append(pulledCounts, invocationCounts[last]),
             max)

\* The inner loop pulling every count whole, however large.
RECURSIVE PullCountsWhole(_, _, _)
PullCountsWhole(invocationCounts, pulledCounts, max) ==
  LET spaceLeftInInvoker == max - sumOfInvocationCounts(pulledCounts)
      last == Len(invocationCounts) IN
  IF ~(spaceLeftInInvoker > 0 /\ last > 0)
    THEN [invocationCounts |-> invocationCounts, pulledCounts |-> pulledCounts]
    ELSE PullCountsWhole(
           SubSeq(invocationCounts, 1, last - 1),
           Append(pulledCounts, invocationCounts[last]),
           max)

\* The inner loop of exports.splitInvocationCounts: pull counts off the end of
\* the array until the invoker is full or the array is empty.
RECURSIVE PullCounts(_, _, _)
PullCounts(invocationCounts, pulledCounts, max) ==
  LET spaceLeftInInvoker == max - sumOfInvocationCounts(pulledCounts)
      last == Len(invocationCounts) IN
  IF ~(spaceLeftInInvoker > 0 /\ last > 0)
    THEN [invocationCounts |-> invocationCounts, pulledCounts |-> pulledCounts]
    ELSE IF invocationCounts[last].count > spaceLeftInInvoker
      THEN PullCounts(
             [invocationCounts EXCEPT ![last].count = @ - spaceLeftInInvoker],
             Append(pulledCounts,
                    [invocationCounts[last] EXCEPT !.count = spaceLeftInInvoker]),
             max)
      ELSE PullCounts(
             SubSeq(invocationCounts, 1, last - 1),
             Append(pulledCounts, invocationCounts[last]),
             max)

\* The loop going on until there are maxInvocationCount sets.
RECURSIVE PullInvokersUpToMax(_, _, _)
PullInvokersUpToMax(invocationCounts, otherInvoker, max) ==
  LET pulled == PullCounts(invocationCounts, <<>>, max)
      others == Append(otherInvoker, pulled.pulledCounts)
      remainingTotalCount == sumOfInvocationCounts(pulled.invocationCounts) IN
  IF remainingTotalCount > max /\ Len(others) < max
    THEN PullInvokersUpToMax(pulled.invocationCounts, others, max)
    ELSE [invocationCounts |-> pulled.invocationCounts, otherInvoker |-> others]

\* The do ... while loop of exports.splitInvocationCounts.
RECURSIVE PullInvokers(_, _, _)
PullInvokers(invocationCounts, otherInvoker, max) ==
  LET pulled == PullCounts(invocationCounts, <<>>, max)
      others == Append(otherInvoker, pulled.pulledCounts)
      remainingTotalCount == sumOfInvocationCounts(pulled.invocationCounts) IN
  IF remainingTotalCount > max /\ Len(others) < max - 1
    THEN PullInvokers(pulled.invocationCounts, others, max)
    ELSE [invocationCounts |-> pulled.invocationCounts, otherInvoker |-> others]

\* The split sending on all the counts in one set when they are too many.
SplitAllSentOnFor(invocationCounts, max) ==
  IF sumOfInvocationCounts(invocationCounts) <= max
    THEN [localInvoker |-> invocationCounts, otherInvoker |-> <<>>]
    ELSE [localInvoker |-> <<>>, otherInvoker |-> <<invocationCounts>>]

\* The split leaving whatever remains after the loop to this instance.
SplitRemainderLocalFor(invocationCounts, max) ==
  IF sumOfInvocationCounts(invocationCounts) <= max
    THEN [localInvoker |-> invocationCounts, otherInvoker |-> <<>>]
    ELSE
      LET rest == PullInvokers(invocationCounts, <<>>, max) IN
      [localInvoker |-> rest.invocationCounts,
       otherInvoker |-> rest.otherInvoker]

\* exports.splitInvocationCounts, for a given config.coordinator.maxInvocationCount.
SplitInvocationCountsFor(invocationCounts, max) ==
  IF sumOfInvocationCounts(invocationCounts) <= max
    THEN [localInvoker |-> invocationCounts, otherInvoker |-> <<>>]
    ELSE
      LET rest == PullInvokers(invocationCounts, <<>>, max) IN
      IF sumOfInvocationCounts(rest.invocationCounts) <= max - Len(rest.otherInvoker)
        THEN [localInvoker |-> rest.invocationCounts,
              otherInvoker |-> rest.otherInvoker]
        ELSE [localInvoker |-> <<>>,
              otherInvoker |-> Append(rest.otherInvoker, rest.invocationCounts)]

\* exports.splitInvocationCounts
splitInvocationCounts(invocationCounts) ==
  SplitInvocationCountsFor(invocationCounts, maxInvocationCount)

\* Names of the components whose counts are given to the splitter.
SplitterNames == <<"a", "b", "c">>

\* No call of splitInvocationCounts is under way.
IdleSplitter ==
  [ pc                 |-> "idle",
    invocationCounts   |-> <<>>,   \* the argument
    maxInvocationCount |-> 1,      \* config.coordinator.maxInvocationCount
    split              |-> [localInvoker |-> <<>>, otherInvoker |-> <<>>] ]

\* The arguments splitInvocationCounts can be called with: a count for every
\* component, in the order of the components.
SplitterInputs ==
  { [k \in DOMAIN SplitterNames |-> [name |-> SplitterNames[k], count |-> counts[k]]] :
      counts \in [DOMAIN SplitterNames -> 0 .. MaxSplitCount] }

\* A call of exports.splitInvocationCounts returns.
SplitInvocationCounts ==
  /\ splitter.pc = "called"
  /\ splitter' = [splitter EXCEPT
       !.pc = "returned",
       !.split = SplitInvocationCountsFor(splitter.invocationCounts,
                                          splitter.maxInvocationCount)]
  /\ UNCHANGED <<counter, router, executor, notCountVars>>

\* Names of the components of an application status.
StatusNames == <<"a", "b">>

\* The components an application status can hold: of either type, with a
\* queuedMessageCount and a concurrency that are numbers or, where the request
\* failed, null.
StatusComponents(name) ==
  [ name               : {name},
    type               : {EVENT_FROM_MESSAGE, EVENT_FROM_INVOCATION},
    maxConcurrency     : 1 .. MaxConcurrent,
    queuedMessageCount : {Null} \cup (0 .. MaxQueued),
    concurrency        : {Null} \cup (0 .. MaxConcurrent) ]

\* Math.floor(count / n): the share rounded down.
Floor(count, n) == count \div n

\* Math.ceil(count / n) for a count that is not negative.
Ceil(count, n) == (count + n - 1) \div n

\* The count of a component taken from the room left alone.
InvocationCountOfRoom(statusComponent, share) ==
  Ceil(Max(0, statusComponent.maxConcurrency - statusComponent.concurrency),
       share)

\* The map callback of exports.getInvocationCounts.
InvocationCountOf(statusComponent, share) ==
  Ceil(Min(statusComponent.queuedMessageCount,
           Max(0, statusComponent.maxConcurrency - statusComponent.concurrency)),
       share)

\* The filter callback of exports.getInvocationCounts.
Counted(statusComponent) ==
  /\ statusComponent.type = EVENT_FROM_MESSAGE
  /\ statusComponent.queuedMessageCount # Null
  /\ statusComponent.concurrency # Null

\* exports.getInvocationCounts, for a given
\* config.coordinator.coordinatorConcurrency.
getInvocationCounts(components, share) ==
  LET counted == SelectSeq(components, Counted) IN
  [k \in DOMAIN counted |->
     [name |-> counted[k].name, count |-> InvocationCountOf(counted[k], share)]]

\* No call of getInvocationCounts is under way.
IdleCounter ==
  [ pc                     |-> "idle",
    components             |-> <<>>,  \* status.components
    coordinatorConcurrency |-> 1,     \* config.coordinator.coordinatorConcurrency
    failed                 |-> {},    \* the requests whose error was logged
    invocationCounts       |-> <<>> ] \* the result

\* A call of exports.getInvocationCounts returns.
GetInvocationCounts ==
  /\ counter.pc = "called"
  /\ counter' = [counter EXCEPT
       !.pc = "returned",
       !.invocationCounts = getInvocationCounts(counter.components,
                                                counter.coordinatorConcurrency)]
  /\ UNCHANGED <<splitter, router, executor, notCountVars>>

\* ---------------------------------------------------------------------------
\* Invoker handler.
\* ---------------------------------------------------------------------------

\* The event of an invoker that carries no components property.
NoComponents == <<[name |-> "none", count |-> 0]>>

\* event.components || []
ComponentsOrEmpty(components) ==
  IF components = NoComponents THEN <<>> ELSE components

\* A slot in which no invoker invocation is running.
IdleInvoker ==
  [ pc               |-> "idle",
    invocationCounts |-> <<>>,     \* event.components || []
    incremented      |-> FALSE,    \* undefined until the increment calls back
    steps            |-> {},       \* tasks of the series that were started
    failed           |-> {},       \* tasks in which a request failed
    increments       |-> 0,        \* calls of incrementConcurrencyCount
    decrements       |-> 0,        \* calls of decrementConcurrencyCount
    dones            |-> 0,        \* calls of context.done
    doneError        |-> NoError ] \* error passed to context.done

\* context.done(error, invocationCounts) in the final callback of the series.
InvokerDone(v, error) ==
  [v EXCEPT !.pc = "done", !.dones = @ + 1, !.doneError = error]

\* exports.handler, up to the start of async.series: Lambda starts the handler
\* on an accepted event, in the first slot that has no invocation running.
InvokerStart(i) ==
  \E e \in 1 .. Len(invokerEvents) :
    /\ invokers[i].pc \in {"idle", "done"}
    /\ \A j \in 1 .. i - 1 : invokers[j].pc \notin {"idle", "done"}
    /\ invokerEvents' = SubSeq(invokerEvents, 1, e - 1) \o
                        SubSeq(invokerEvents, e + 1, Len(invokerEvents))
    /\ invokers' = [invokers EXCEPT ![i] =
         [IdleInvoker EXCEPT !.pc = "loadArnMap",
                             !.invocationCounts = ComponentsOrEmpty(invokerEvents[e])]]
    /\ UNCHANGED <<invokerQueue, invoked, notInvokerVars>>

\* First task: utilities.loadArnMap. Its error goes to the series, whose
\* final callback passes it to context.done.
InvokerLoadArnMap(i) ==
  LET v == [invokers[i] EXCEPT !.steps = @ \cup {"loadArnMap"}] IN
  /\ invokers[i].pc = "loadArnMap"
  /\ \E ok \in BOOLEAN :
       invokers' = [invokers EXCEPT ![i] =
         IF ok
           THEN [v EXCEPT !.pc = "increment"]
           ELSE InvokerDone([v EXCEPT !.failed = @ \cup {"loadArnMap"}],
                            "loadArnMap")]
  /\ UNCHANGED <<invokerEvents, invokerQueue, invoked, notInvokerVars>>

\* An increment whose error ends the series, as the error of the load does.
InvokerIncrementFatal(i) ==
  LET v == [invokers[i] EXCEPT !.steps = @ \cup {"increment"},
                               !.increments = @ + 1] IN
  /\ invokers[i].pc = "increment"
  /\ \/ /\ invokerQueue' = invokerQueue + 1
        /\ invokers' = [invokers EXCEPT ![i] =
             [v EXCEPT !.incremented = TRUE, !.pc = "dispatch"]]
     \/ /\ UNCHANGED invokerQueue
        /\ invokers' = [invokers EXCEPT ![i] =
             InvokerDone([v EXCEPT !.failed = @ \cup {"increment"}], "increment")]
  /\ UNCHANGED <<invokerEvents, invoked, notInvokerVars>>

\* Second task: utilities.incrementConcurrencyCount. Success or failure, the
\* series continues.
InvokerIncrement(i) ==
  LET v == [invokers[i] EXCEPT !.steps = @ \cup {"increment"},
                               !.increments = @ + 1,
                               !.pc = "dispatch"] IN
  /\ invokers[i].pc = "increment"
  /\ \/ /\ invokerQueue' = invokerQueue + 1
        /\ invokers' = [invokers EXCEPT ![i] = [v EXCEPT !.incremented = TRUE]]
     \/ /\ UNCHANGED invokerQueue
        /\ invokers' = [invokers EXCEPT ![i] =
             [v EXCEPT !.incremented = FALSE, !.failed = @ \cup {"increment"}]]
  /\ UNCHANGED <<invokerEvents, invoked, notInvokerVars>>

\* The names in a list of invocation counts, once per invocation to issue.
RECURSIVE LocalInvocations(_)
LocalInvocations(invocationCounts) ==
  IF invocationCounts = <<>>
    THEN <<>>
    ELSE [k \in 1 .. Head(invocationCounts).count |-> Head(invocationCounts).name]
         \o LocalInvocations(Tail(invocationCounts))

\* The elements of a sequence at the positions of a set, in order.
RECURSIVE Select(_, _)
Select(seq, positions) ==
  IF seq = <<>>
    THEN <<>>
    ELSE Select(SubSeq(seq, 1, Len(seq) - 1), positions) \o
         (IF Len(seq) \in positions THEN <<seq[Len(seq)]>> ELSE <<>>)

\* Third task: common.invokeApplicationLambdaFunctions. Every invocation of
\* the plan is issued; one that fails is logged by executeConcurrently, which
\* calls back without an error.
InvokerDispatch(i) ==
  LET v == [invokers[i] EXCEPT !.steps = @ \cup {"dispatch"},
                               !.pc = "decrement"]
      split == splitInvocationCounts(invokers[i].invocationCounts)
      local == LocalInvocations(split.localInvoker) IN
  /\ invokers[i].pc = "dispatch"
  /\ \E okLocal \in SUBSET (1 .. Len(local)),
        okOther \in SUBSET (1 .. Len(split.otherInvoker)) :
       /\ invoked' = [n \in DOMAIN invoked |->
            invoked[n] + Cardinality({k \in okLocal : local[k] = n})]
       /\ invokerEvents' = invokerEvents \o Select(split.otherInvoker, okOther)
       /\ invokers' = [invokers EXCEPT ![i] =
            IF Cardinality(okLocal) = Len(local) /\
               Cardinality(okOther) = Len(split.otherInvoker)
              THEN v
              ELSE [v EXCEPT !.failed = @ \cup {"dispatch"}]]
  /\ UNCHANGED <<invokerQueue, notInvokerVars>>

\* Fourth task: utilities.decrementConcurrencyCount, skipped when the
\* increment failed; then the final callback.
InvokerDecrement(i) ==
  LET v == invokers[i]
      w == [v EXCEPT !.steps = @ \cup {"decrement"}, !.decrements = @ + 1] IN
  /\ v.pc = "decrement"
  /\ IF ~v.incremented
       THEN /\ invokers' = [invokers EXCEPT ![i] = InvokerDone(v, NoError)]
            /\ UNCHANGED <<invokerQueue, uncleaned>>
       ELSE \/ /\ invokerQueue > 0
               /\ invokerQueue' = invokerQueue - 1
               /\ invokers' = [invokers EXCEPT ![i] = InvokerDone(w, NoError)]
               /\ UNCHANGED uncleaned
            \/ /\ UNCHANGED invokerQueue
               /\ \E error \in {"receiveMessage", "noMessage", "deleteMessage"} :
                    /\ (error = "deleteMessage") => invokerQueue > 0
                    /\ invokers' = [invokers EXCEPT ![i] =
                         InvokerDone([w EXCEPT !.failed = @ \cup {"decrement"}],
                                     error)]
               /\ uncleaned' = Left("invoker", TRUE)
  /\ UNCHANGED <<invokerEvents, invoked, coordVars, wrapperVars, countVars, deployVars>>

\* A message left in the invoker concurrency queue by an invocation that has
\* ended reaches the end of its retention period.
InvokerExpire ==
  /\ uncleaned.invoker > 0
  /\ invokerQueue > 0
  /\ invokerQueue' = invokerQueue - 1
  /\ uncleaned' = [uncleaned EXCEPT !.invoker = @ - 1]
  /\ UNCHANGED <<invokers, invokerEvents, invoked, coordVars, wrapperVars,
                 countVars, deployVars>>

\* ---------------------------------------------------------------------------
\* Wrapper of a component's handle.
\* ---------------------------------------------------------------------------

\* lc.receiptHandle before a message was received.
NoReceipt == 0

\* Arguments a completion function was not given.
None == "none"

\* Errors and results the wrapped handler can report.
HandlerErrors == {"e1", "e2"}
HandlerResults == {"r1"}

\* The calls a handler can make on its context: done(error, result),
\* fail(error) and succeed(result).
ContextCalls ==
  [mode : {"done"}, error : {None} \cup HandlerErrors, result : HandlerResults]
  \cup [mode : {"fail"}, error : HandlerErrors, result : {None}]
  \cup [mode : {"succeed"}, error : {None}, result : HandlerResults]

NoCall == [mode |-> None, error |-> None, result |-> None]

\* No invocation of the wrapped handle is running.
IdleWrapper ==
  [ pc            |-> "idle",
    incremented   |-> FALSE,      \* lc.incremented
    receiptHandle |-> NoReceipt,  \* lc.receiptHandle
    handling      |-> FALSE,      \* the wrapped handler was called
    calls         |-> 0,          \* calls made on the wrapped context
    first         |-> NoCall,     \* the first of these calls
    finalizing    |-> NoCall,     \* mode and arguments of lc.finalizeInvocation
    finalizations |-> 0,          \* calls of lc.finalizeInvocation
    sendError     |-> None,       \* error lc.sendData called back with
    deletes       |-> 0,          \* calls of lc.deleteMessageFromInputQueue
    increments    |-> 0,          \* calls of incrementConcurrencyCount
    decrements    |-> 0,          \* calls of decrementConcurrencyCount
    failed        |-> {},         \* steps in which a request failed
    performed     |-> <<>>,       \* steps lc.finalizeInvocation has taken
    routed        |-> <<>>,       \* the <<error, result>> given to lc.sendData
    forwarded     |-> <<>> ]      \* calls made on the original context

\* The outcome a call reports is a success: succeed, or done without error.
Succeeded(call) ==
  call.mode = "succeed" \/ (call.mode = "done" /\ call.error = None)

\* A finalization that starts with the call on the original context.
FinalizationStepsForwardFirst ==
  <<"forward", "sendData", "deleteMessage", "decrement">>

\* The steps of lc.finalizeInvocation, in the order it takes them.
FinalizationSteps ==
  <<"sendData", "deleteMessage", "decrement", "forward">>

\* Where lc.finalizeInvocation goes after a step: to the next step, or to the
\* end of the invocation after the last one.
StepAfter(step) ==
  LET k == CHOOSE k \in DOMAIN FinalizationSteps : FinalizationSteps[k] = step IN
  IF k = Len(FinalizationSteps) THEN "done" ELSE FinalizationSteps[k + 1]

\* A wrapped context without a guard: every call is passed on.
FirstCallUnguarded(w, call) == TRUE

\* The guard of the functions lc.wrapContext puts in place of done, fail and
\* succeed: is this call the one to pass on to lc.finalizeInvocation?
FirstCall(w, call) == w.finalizations = 0

\* A call on the wrapped context, made by the handler or by the wrapper.
CallWrappedContext(w, call) ==
  LET counted == [w EXCEPT !.calls = @ + 1,
                           !.first = IF w.calls = 0 THEN call ELSE @] IN
  IF FirstCall(w, call)
    THEN [counted EXCEPT !.pc = FinalizationSteps[1],
                         !.finalizing = call,
                         !.finalizations = @ + 1,
                         !.sendError = None]
    ELSE counted

\* The wrapped handle is invoked. The ARN map is loaded if this container has
\* not loaded it yet.
WrapperStart ==
  /\ component # NoComponent
  /\ wrapper.pc \in {"idle", "done"}
  /\ wrapper' = [IdleWrapper EXCEPT
       !.pc = IF arnMapLoaded THEN "increment" ELSE "loadArnMap"]
  /\ UNCHANGED <<component, arnMapLoaded, inputQueue, componentQueue,
                 failedBefore, notWrapperVars>>

\* utilities.loadArnMap in the wrapped handle: a failure ends the invocation
\* with that error on the original context.
WrapperLoadArnMap ==
  /\ wrapper.pc = "loadArnMap"
  /\ \/ /\ arnMapLoaded' = TRUE
        /\ wrapper' = [wrapper EXCEPT !.pc = "increment"]
     \/ /\ UNCHANGED arnMapLoaded
        /\ wrapper' = [wrapper EXCEPT
             !.pc = "done",
             !.failed = @ \cup {"loadArnMap"},
             !.forwarded = Append(@, [mode |-> "done", error |-> "loadArnMap",
                                      result |-> None])]
  /\ UNCHANGED <<component, inputQueue, componentQueue, failedBefore,
                 notWrapperVars>>

\* An increment that sends its message twice.
WrapperIncrementTwice ==
  LET w == [wrapper EXCEPT !.increments = @ + 1, !.pc = "input"] IN
  /\ wrapper.pc = "increment"
  /\ \/ /\ componentQueue + 1 < MaxQueueDepth
        /\ componentQueue' = componentQueue + 2
        /\ wrapper' = [w EXCEPT !.incremented = TRUE]
     \/ /\ UNCHANGED componentQueue
        /\ wrapper' = [w EXCEPT !.incremented = FALSE,
                                !.failed = @ \cup {"increment"}]
  /\ UNCHANGED <<component, arnMapLoaded, inputQueue, failedBefore,
                 notWrapperVars>>

\* The increment of the concurrency count before the input is fetched: its
\* outcome is kept in lc.incremented and the invocation goes on either way.
WrapperIncrement ==
  LET w == [wrapper EXCEPT !.increments = @ + 1, !.pc = "input"] IN
  /\ wrapper.pc = "increment"
  /\ \/ /\ componentQueue < MaxQueueDepth
        /\ componentQueue' = componentQueue + 1
        /\ wrapper' = [w EXCEPT !.incremented = TRUE]
     \/ /\ UNCHANGED componentQueue
        /\ wrapper' = [w EXCEPT !.incremented = FALSE,
                                !.failed = @ \cup {"increment"}]
  /\ UNCHANGED <<component, arnMapLoaded, inputQueue, failedBefore,
                 notWrapperVars>>

\* lc.handleAsEventFromInvocationType: the event goes to the handler as is.
handleAsEventFromInvocationType ==
  /\ wrapper.pc = "input"
  /\ component.type = EVENT_FROM_INVOCATION
  /\ wrapper' = [wrapper EXCEPT !.pc = "handler", !.handling = TRUE]
  /\ UNCHANGED <<component, arnMapLoaded, inputQueue, componentQueue,
                 failedBefore, notWrapperVars>>

\* A receive whose outcome is not looked at: without a message the handler is
\* called all the same.
handleAsEventFromMessageTypeUnchecked ==
  /\ wrapper.pc = "input"
  /\ component.type = EVENT_FROM_MESSAGE
  /\ \/ /\ wrapper' = [wrapper EXCEPT !.pc = "handler", !.handling = TRUE,
                                        !.failed = @ \cup {"receiveMessage"}]
        /\ UNCHANGED inputQueue
     \/ \E m \in Messages :
          /\ inputQueue[m] = "visible"
          /\ inputQueue' = [inputQueue EXCEPT ![m] = "invisible"]
          /\ wrapper' = [wrapper EXCEPT !.pc = "handler", !.handling = TRUE,
                                        !.receiptHandle = m]
  /\ UNCHANGED <<component, arnMapLoaded, componentQueue, failedBefore,
                 notWrapperVars>>

\* lc.handleAsEventFromMessageType: receive one message. An error or an empty
\* response fails the wrapped context; a message is kept invisible for the
\* visibility timeout, its receipt handle is stashed and the handler called.
handleAsEventFromMessageType ==
  /\ wrapper.pc = "input"
  /\ component.type = EVENT_FROM_MESSAGE
  /\ \/ /\ \E error \in {"receiveMessage", "noMessage"} :
             wrapper' = CallWrappedContext(
               [wrapper EXCEPT !.failed = @ \cup {"receiveMessage"}],
               [mode |-> "fail", error |-> error, result |-> None])
        /\ UNCHANGED inputQueue
     \/ \E m \in Messages :
          /\ inputQueue[m] = "visible"
          /\ inputQueue' = [inputQueue EXCEPT ![m] = "invisible"]
          /\ wrapper' = [wrapper EXCEPT !.pc = "handler", !.handling = TRUE,
                                        !.receiptHandle = m]
  /\ UNCHANGED <<component, arnMapLoaded, componentQueue, failedBefore,
                 notWrapperVars>>

\* The invocation has not handed control back to Lambda yet.
Running(w) ==
  w.pc \in {"handler", "sendData", "deleteMessage", "decrement", "forward"}

\* The handler calls done, fail or succeed on the context it was given.
HandlerCall ==
  \E call \in ContextCalls :
    /\ wrapper.handling
    /\ Running(wrapper)
    /\ wrapper.calls < MaxCalls
    /\ wrapper' = CallWrappedContext(wrapper, call)
    /\ failedBefore' =
         IF wrapper.calls = 0 /\ ~Succeeded(call) /\ wrapper.receiptHandle # NoReceipt
           THEN failedBefore \cup {wrapper.receiptHandle}
           ELSE failedBefore
    /\ UNCHANGED <<component, arnMapLoaded, inputQueue, componentQueue,
                   notWrapperVars>>

\* The call the handler for uncaught exceptions makes on the wrapped context.
UncaughtException == [mode |-> "fail", error |-> "uncaught", result |-> None]

\* The handler throws and nothing catches the exception: the invocation ends
\* there.
HandlerThrowUncaught ==
  /\ wrapper.handling
  /\ Running(wrapper)
  /\ wrapper.calls < MaxCalls
  /\ wrapper' = [wrapper EXCEPT
       !.pc = "done",
       !.calls = @ + 1,
       !.first = IF wrapper.calls = 0 THEN UncaughtException ELSE @]
  /\ failedBefore' =
       IF wrapper.calls = 0 /\ wrapper.receiptHandle # NoReceipt
         THEN failedBefore \cup {wrapper.receiptHandle}
         ELSE failedBefore
  /\ UNCHANGED <<component, arnMapLoaded, inputQueue, componentQueue,
                 notWrapperVars>>

\* The handler throws: the handler for uncaught exceptions fails the wrapped
\* context with the exception.
HandlerThrow ==
  /\ wrapper.handling
  /\ Running(wrapper)
  /\ wrapper.calls < MaxCalls
  /\ wrapper' = CallWrappedContext(wrapper, UncaughtException)
  /\ failedBefore' =
       IF wrapper.calls = 0 /\ wrapper.receiptHandle # NoReceipt
         THEN failedBefore \cup {wrapper.receiptHandle}
         ELSE failedBefore
  /\ UNCHANGED <<component, arnMapLoaded, inputQueue, componentQueue,
                 notWrapperVars>>

\* A finalization in which an error of lc.sendData ends the series of steps:
\* the call on the original context is all that follows.
sendDataShortCircuits ==
  /\ wrapper.pc = "sendData"
  /\ \E sendError \in {None, "sendData"} :
       wrapper' = [wrapper EXCEPT
         !.pc = IF sendError = None THEN StepAfter("sendData") ELSE "forward",
         !.performed = Append(@, "sendData"),
         !.routed = Append(@, <<wrapper.finalizing.error,
                                wrapper.finalizing.result>>),
         !.sendError = sendError,
         !.failed = IF sendError = None THEN @ ELSE @ \cup {"sendData"}]
  /\ UNCHANGED <<component, arnMapLoaded, inputQueue, componentQueue,
                 failedBefore, notWrapperVars>>

\* First step of lc.finalizeInvocation: lc.sendData(error, result). Its error
\* is kept for the last step.
sendData ==
  /\ wrapper.pc = "sendData"
  /\ \E sendError \in {None, "sendData"} :
       wrapper' = [wrapper EXCEPT
         !.pc = StepAfter("sendData"),
         !.performed = Append(@, "sendData"),
         !.routed = Append(@, <<wrapper.finalizing.error,
                                wrapper.finalizing.result>>),
         !.sendError = sendError,
         !.failed = IF sendError = None THEN @ ELSE @ \cup {"sendData"}]
  /\ UNCHANGED <<component, arnMapLoaded, inputQueue, componentQueue,
                 failedBefore, notWrapperVars>>

\* A finalization that deletes the message whatever the handler reported.
DeletesMessageAnyOutcome(type, call) ==
  type = EVENT_FROM_MESSAGE

\* A finalization that deletes whatever the type of the component.
DeletesMessageAnyType(type, call) ==
  Succeeded(call)

\* Does lc.finalizeInvocation delete the message from the input queue?
DeletesMessage(type, call) ==
  type = EVENT_FROM_MESSAGE /\ Succeeded(call)

\* Second step of lc.finalizeInvocation: lc.deleteMessageFromInputQueue, for
\* a successful outcome of an event from message component. The delete is not
\* retried; its error is logged.
deleteMessageFromInputQueue ==
  LET w == [wrapper EXCEPT !.pc = StepAfter("deleteMessage")]
      deleting == [w EXCEPT !.deletes = @ + 1,
                            !.performed = Append(@, "deleteMessage")] IN
  /\ wrapper.pc = "deleteMessage"
  /\ IF DeletesMessage(component.type, wrapper.finalizing)
       THEN \/ /\ wrapper.receiptHandle # NoReceipt
               /\ inputQueue' = [inputQueue EXCEPT ![wrapper.receiptHandle] = "deleted"]
               /\ wrapper' = deleting
            \/ /\ UNCHANGED inputQueue
               /\ wrapper' = [deleting EXCEPT
                    !.failed = @ \cup {"deleteMessage"}]
       ELSE /\ UNCHANGED inputQueue
            /\ wrapper' = w
  /\ UNCHANGED <<component, arnMapLoaded, componentQueue, failedBefore,
                 notWrapperVars>>

\* Third step of lc.finalizeInvocation: utilities.decrementConcurrencyCount,
\* if the increment of this invocation succeeded. Its error is logged.
WrapperDecrement ==
  LET w == [wrapper EXCEPT !.pc = StepAfter("decrement")]
      decrementing == [w EXCEPT !.decrements = @ + 1,
                                !.performed = Append(@, "decrement")] IN
  /\ wrapper.pc = "decrement"
  /\ IF wrapper.incremented
       THEN \/ /\ componentQueue > 0
               /\ componentQueue' = componentQueue - 1
               /\ wrapper' = decrementing
            \/ /\ UNCHANGED componentQueue
               /\ wrapper' = [decrementing EXCEPT
                    !.failed = @ \cup {"decrement"}]
       ELSE /\ UNCHANGED componentQueue
            /\ wrapper' = w
  /\ UNCHANGED <<component, arnMapLoaded, inputQueue, failedBefore,
                 notWrapperVars>>

\* A finalization that calls fail with the error of lc.sendData whatever the
\* call it was given.
ForwardedCallOverwritten(call, sendError) ==
  IF sendError # None
    THEN [mode |-> "fail", error |-> sendError, result |-> None]
    ELSE call

\* The call lc.finalizeInvocation makes on the original context: the call it
\* was given, or fail with the error of lc.sendData unless the call is a fail.
ForwardedCall(call, sendError) ==
  IF sendError # None /\ call.mode # "fail"
    THEN [mode |-> "fail", error |-> sendError, result |-> None]
    ELSE call

\* Last step of lc.finalizeInvocation: the call on the original context.
Forward ==
  /\ wrapper.pc = "forward"
  /\ wrapper' = [wrapper EXCEPT
       !.pc = StepAfter("forward"),
       !.performed = Append(@, "forward"),
       !.forwarded = Append(@, ForwardedCall(wrapper.finalizing, wrapper.sendError))]
  /\ uncleaned' = Left("component",
                       /\ wrapper'.pc = "done"
                       /\ wrapper.incremented
                       /\ wrapper.decrements = 0 \/ "decrement" \in wrapper.failed)
  /\ UNCHANGED <<component, arnMapLoaded, inputQueue, componentQueue,
                 failedBefore, coordVars, invokerVars, countVars, deployVars>>

\* The visibility timeout of a received message ends: it is the timeout of
\* the function, so the invocation that received the message is over.
VisibilityTimeout(m) ==
  /\ inputQueue[m] = "invisible"
  /\ wrapper.receiptHandle = m => wrapper.pc = "done"
  /\ inputQueue' = [inputQueue EXCEPT ![m] = "visible"]
  /\ UNCHANGED <<component, arnMapLoaded, wrapper, componentQueue, failedBefore,
                 notWrapperVars>>

\* A message left in the concurrency queue by an invocation that has ended
\* reaches the end of its retention period.
WrapperExpire ==
  /\ uncleaned.component > 0
  /\ componentQueue > 0
  /\ componentQueue' = componentQueue - 1
  /\ uncleaned' = [uncleaned EXCEPT !.component = @ - 1]
  /\ UNCHANGED <<component, arnMapLoaded, wrapper, inputQueue, failedBefore,
                 coordVars, invokerVars, countVars, deployVars>>

\* ---------------------------------------------------------------------------
\* Routing of the result of a component: lc.sendData.
\* ---------------------------------------------------------------------------

\* Names a routing can hold: two components of the application and a name
\* that no component has.
DestinationNames == {"a", "b", "invalid"}

\* The names lc.sendDataToDestination finds a component for.
KnownDestinations == {"a", "b"}

\* What a handler hands over as its result, and what a routing function can
\* put in its place.
Payloads == {"r1", "d1"}

\* A value that is not an object: null, undefined, a regular expression.
NotAnObject == [object |-> FALSE, name |-> None, data |-> None]

\* What a routing function can return for one destination: an object with a
\* name, an empty name or no name, or something that is not an object.
RoutingEntries ==
  [object : {TRUE}, name : DestinationNames \cup {"", None}, data : Payloads]
    \cup {NotAnObject}

\* Sequences of at most n elements of S.
SeqUpTo(S, n) == UNION {[1 .. k -> S] : k \in 0 .. n}

\* The routing of a component definition: none, one name, a list of names, or
\* a function, given here by what it returns.
Routings ==
  [kind : {"none"}, names : {<<>>}, returns : {<<>>}]
    \cup [kind : {"name"}, names : [1 .. 1 -> DestinationNames], returns : {<<>>}]
    \cup [kind : {"names"}, names : SeqUpTo(DestinationNames, MaxDestinations),
          returns : {<<>>}]
    \cup [kind : {"function"}, names : {<<>>},
          returns : SeqUpTo(RoutingEntries, MaxDestinations)]

\* An entry a routing function returned is an object with a destination name.
WellFormed(entry) ==
  entry.object /\ entry.name \notin {"", None}

\* The destinations of a routing by names, handed on whatever the outcome.
DestinationsOfNamesAnyOutcome(routing, error, result) ==
  IF routing.kind \in {"name", "names"}
    THEN [k \in DOMAIN routing.names |->
            [name |-> routing.names[k], data |-> result]]
  ELSE IF routing.kind = "function"
    THEN LET kept == SelectSeq(routing.returns, WellFormed) IN
         [k \in DOMAIN kept |-> [name |-> kept[k].name, data |-> kept[k].data]]
  ELSE <<>>

\* The pairs of name and data lc.sendData hands to lc.sendDataToDestination:
\* for names, the result under every name unless there is an error; for a
\* function, the well-formed entries of what it returns.
Destinations(routing, error, result) ==
  IF routing.kind \in {"name", "names"}
    THEN IF error # None
           THEN <<>>
           ELSE [k \in DOMAIN routing.names |->
                   [name |-> routing.names[k], data |-> result]]
  ELSE IF routing.kind = "function"
    THEN LET kept == SelectSeq(routing.returns, WellFormed) IN
         [k \in DOMAIN kept |-> [name |-> kept[k].name, data |-> kept[k].data]]
  ELSE <<>>

\* No call of lc.sendData is under way.
IdleRouter ==
  [ pc        |-> "idle",
    routing   |-> [kind |-> "none", names |-> <<>>, returns |-> <<>>],
    error     |-> None,   \* the error lc.sendData was given
    result    |-> None,   \* the result lc.sendData was given
    evaluated |-> <<>>,      \* the <<error, result>> the function was called with
    sent      |-> <<>>,      \* calls of lc.sendDataToDestination
    failed    |-> {},        \* the calls among these that called back an error
    sendError |-> None ]  \* the error lc.sendData calls back with

\* A call of lc.sendData returns: every destination is sent its data, a
\* request to a known destination succeeds or fails, a request to an unknown
\* one fails, and the error of a failed request is called back.
SendData ==
  /\ router.pc = "called"
  /\ LET sent == Destinations(router.routing, router.error, router.result)
         unknown == {k \in DOMAIN sent : sent[k].name \notin KnownDestinations} IN
     \E refused \in SUBSET (DOMAIN sent \ unknown) :
       router' = [router EXCEPT
         !.pc = "returned",
         !.evaluated = IF router.routing.kind = "function"
                         THEN <<router.error, router.result>> ELSE <<>>,
         !.sent = sent,
         !.failed = unknown \cup refused,
         !.sendError = IF unknown \cup refused = {} THEN None
                                                    ELSE "sendData"]
  /\ UNCHANGED <<splitter, counter, executor, notCountVars>>

\* ---------------------------------------------------------------------------
\* Flow control: executeConcurrently.
\* ---------------------------------------------------------------------------

\* No call of executeConcurrently is under way.
IdleExecutor ==
  [ pc          |-> "idle",
    fns         |-> <<>>,  \* the functions, each by the request it makes
    concurrency |-> 1,     \* the limit the async.queue is made with
    tasks       |-> <<>>,  \* per function: "queued", "running", "done", "failed"
    starts      |-> <<>>,  \* per function: the times it was called
    logged      |-> 0,     \* errors onTaskCompletion has logged
    callbacks   |-> 0,     \* calls of the callback
    error       |-> None,  \* what the callback was called with
    completed   |-> 0 ]    \* functions that had called back when it was called

\* The functions of the queue that are in a given state.
TasksIn(state) ==
  {k \in DOMAIN executor.tasks : executor.tasks[k] = state}

\* The functions that have called back.
Completed == TasksIn("done") \cup TasksIn("failed")

\* A queue that gives a function to a worker whenever one is waiting.
WorkerFreeAlways == TRUE

\* async.queue: a worker is free while fewer functions are running than the
\* concurrency of the queue.
WorkerFree == Cardinality(TasksIn("running")) < executor.concurrency

\* A queue that ends at the first function to fail.
DrainedOrFailed(tasks) ==
  \/ \E j \in DOMAIN tasks : tasks[j] = "failed"
  \/ \A j \in DOMAIN tasks : tasks[j] = "done"

\* async.queue calls drain when the last function has called back, whatever
\* it called back with.
Drained(tasks) ==
  \A j \in DOMAIN tasks : tasks[j] \in {"done", "failed"}

\* _.once(callback): the callback is called the first time only.
Once(callbacks) == callbacks = 0

\* exports.executeConcurrently up to its return: without functions the
\* callback is called at once; otherwise the queue is made and every function
\* pushed onto it.
executeConcurrently(fns, concurrency) ==
  IF Len(fns) = 0
    THEN [IdleExecutor EXCEPT !.pc = "returned",
                              !.concurrency = concurrency,
                              !.callbacks = @ + 1]
    ELSE [IdleExecutor EXCEPT
            !.pc = "queued",
            !.fns = fns,
            !.concurrency = concurrency,
            !.tasks = [k \in DOMAIN fns |-> "queued"],
            !.starts = [k \in DOMAIN fns |-> 0]]

\* A function that makes no request of the application status.
AnyFunction == [name |-> "fn", field |-> None]

\* A call of exports.executeConcurrently.
ExecuteConcurrently ==
  /\ executor.pc = "called"
  /\ executor' = executeConcurrently(executor.fns, executor.concurrency)
  /\ UNCHANGED <<splitter, counter, router, notCountVars>>

\* The worker of the queue: the function that has waited longest is called
\* when a worker is free.
Process ==
  /\ executor.pc = "queued"
  /\ TasksIn("queued") # {}
  /\ WorkerFree
  /\ LET k == CHOOSE k \in TasksIn("queued") : \A j \in TasksIn("queued") : k <= j IN
     executor' = [executor EXCEPT !.tasks[k] = "running", !.starts[k] = @ + 1]
  /\ UNCHANGED <<splitter, counter, router, notCountVars>>

\* A function calls back: onTaskCompletion logs its error, and the queue
\* calls drain when no function is waiting or running.
TaskCompleted(k, ok) ==
  LET after == [executor EXCEPT
                  !.tasks[k] = IF ok THEN "done" ELSE "failed",
                  !.logged = IF ok THEN @ ELSE @ + 1] IN
  IF Drained(after.tasks) /\ Once(executor.callbacks)
    THEN [after EXCEPT !.pc = "returned",
                       !.callbacks = @ + 1,
                       !.completed = Len(after.tasks)]
    ELSE after

\* A function that makes no request of the application status calls back,
\* with an error or without.
OnTaskCompletion(k) ==
  /\ executor.pc = "queued"
  /\ executor.tasks[k] = "running"
  /\ executor.fns[k] = AnyFunction
  /\ \E ok \in BOOLEAN : executor' = TaskCompleted(k, ok)
  /\ UNCHANGED <<splitter, counter, router, notCountVars>>

\* ---------------------------------------------------------------------------
\* Coordinator: determineApplicationStatus.
\* ---------------------------------------------------------------------------

INTERNAL == "internal"

\* constants.coordinator.COMPONENT and constants.invoker.COMPONENT, as far as
\* the status reads them.
InternalComponents ==
  << [name |-> "lambdaComplexCoordinator", type |-> INTERNAL, maxConcurrency |-> Null],
     [name |-> "lambdaComplexInvoker", type |-> INTERNAL, maxConcurrency |-> Null] >>

\* config.components of an application of two components, each of either
\* type.
ConfigComponents ==
  { <<a, b>> :
      a \in [name : {StatusNames[1]},
             type : {EVENT_FROM_MESSAGE, EVENT_FROM_INVOCATION},
             maxConcurrency : 1 .. MaxConcurrent],
      b \in [name : {StatusNames[2]},
             type : {EVENT_FROM_MESSAGE, EVENT_FROM_INVOCATION},
             maxConcurrency : 1 .. MaxConcurrent] }

\* common.getAllComponents
getAllComponents(components) == InternalComponents \o components

\* The data determineApplicationStatus starts with for a component: nothing
\* measured yet. A property the data does not have is Null here as well.
StatusData(c) ==
  [ name               |-> c.name,
    type               |-> c.type,
    maxConcurrency     |-> IF c.type = EVENT_FROM_MESSAGE THEN c.maxConcurrency
                                                          ELSE Null,
    queuedMessageCount |-> Null,
    concurrency        |-> Null ]

IsMessageComponent(c) == c.type = EVENT_FROM_MESSAGE

\* The functions determineApplicationStatus makes: for every component the
\* message count of its concurrency queue, then for every eventFromMessage
\* component the message count of the queue that feeds it.
StatusFunctions(all) ==
  [k \in DOMAIN all |-> [name |-> all[k].name, field |-> "concurrency"]]
  \o
  LET fed == SelectSeq(all, IsMessageComponent) IN
  [k \in DOMAIN fed |-> [name |-> fed[k].name, field |-> "queuedMessageCount"]]

\* A status in which a request that failed counts as no message.
RecordedOrZero(components, fn, count) ==
  [k \in DOMAIN components |->
     IF components[k].name # fn.name THEN components[k]
     ELSE IF fn.field = "concurrency"
       THEN [components[k] EXCEPT !.concurrency = Max(0, count)]
       ELSE [components[k] EXCEPT !.queuedMessageCount = Max(0, count)]]

\* The callback of utilities.getQueueMessageCount in either function: the
\* count is recorded in the data of the component unless the request failed,
\* which is count = Null here.
Recorded(components, fn, count) ==
  [k \in DOMAIN components |->
     IF components[k].name # fn.name \/ count = Null THEN components[k]
     ELSE IF fn.field = "concurrency"
       THEN [components[k] EXCEPT !.concurrency = count]
       ELSE [components[k] EXCEPT !.queuedMessageCount = count]]

\* exports.determineApplicationStatus up to its return: the status is set up
\* and the functions are given to executeConcurrently.
DetermineApplicationStatus ==
  /\ counter.pc = "start"
  /\ LET all == getAllComponents(counter.components) IN
     /\ counter' = [counter EXCEPT
          !.pc = "measuring",
          !.components = [k \in DOMAIN all |-> StatusData(all[k])]]
     /\ executor' = executeConcurrently(StatusFunctions(all), maxApiConcurrency)
  /\ UNCHANGED <<splitter, router, notCountVars>>

\* A request of a message count returns, with a count or with an error: the
\* error is logged, the count recorded, and the function calls back without
\* an error. When it was the last, the callback of determineApplicationStatus
\* gets the status and getInvocationCounts is called with it.
GetQueueMessageCount(k) ==
  /\ counter.pc = "measuring"
  /\ executor.pc = "queued"
  /\ executor.tasks[k] = "running"
  /\ \E count \in {Null} \cup (0 .. MaxMeasured) :
       /\ executor' = TaskCompleted(k, TRUE)
       /\ counter' = [counter EXCEPT
            !.pc = IF executor'.pc = "returned" THEN "called" ELSE @,
            !.components = Recorded(@, executor.fns[k], count),
            !.failed = IF count = Null THEN @ \cup {executor.fns[k]} ELSE @]
  /\ UNCHANGED <<splitter, router, notCountVars>>

\* ---------------------------------------------------------------------------
\* Shared utilities: retry.
\* ---------------------------------------------------------------------------

\* exports.retryLimit
retryLimit == 3

\* An argument a callback was not given.
Undefined == 0

\* What a retried function can call back with: <<error, result>>, one of
\* some errors without a result or one of some results without an error.
RetriedOutcomes ==
  {<<error, Undefined>> : error \in 1 .. MaxOutcomes}
  \cup {<<Undefined, result>> : result \in 1 .. MaxOutcomes}

RetryErrorMessages == {"first message", "second message"}

\* No call of utilities.retry is under way.
IdleRetrier ==
  [ pc                |-> "idle",
    retryErrorMessage |-> None,
    attempts          |-> 0,     \* the local attempts: calls of fn so far
    yielded           |-> <<>>,  \* what fn called back with, call by call
    logged            |-> <<>>,  \* the arguments of console.error, call by call
    callbacks         |-> <<>> ] \* the arguments of callback, call by call

\* runFn: the function is called once more.
RunFn ==
  /\ retrier.pc = "runFn"
  /\ retrier' = [retrier EXCEPT !.pc = "fn", !.attempts = @ + 1]
  /\ UNCHANGED <<deployer, notDeployVars>>

\* A harness that gives up one failure late.
GivesUpLate(attempts) == attempts > retryLimit

\* attempts >= exports.retryLimit
GivesUp(attempts) == attempts >= retryLimit

\* The callback retry gives to fn: an error before the limit is logged and
\* the function run again; any other outcome goes to the callback as it is.
FnCallback ==
  /\ retrier.pc = "fn"
  /\ \E outcome \in RetriedOutcomes :
       LET r == [retrier EXCEPT !.yielded = Append(@, outcome)] IN
       retrier' =
         IF outcome[1] # Undefined /\ ~GivesUp(retrier.attempts)
           THEN [r EXCEPT
                   !.pc = "runFn",
                   !.logged = Append(@, <<retrier.retryErrorMessage, outcome[1]>>)]
           ELSE [r EXCEPT !.pc = "returned",
                          !.callbacks = Append(@, outcome)]
  /\ UNCHANGED <<deployer, notDeployVars>>

\* ---------------------------------------------------------------------------
\* Deployment: the switchover function.
\* ---------------------------------------------------------------------------

\* The pause between two requests for the confirmation file, in seconds.
PollPause == 2

\* (config.coordinator.minInterval + 1) * 2 * 1000 milliseconds, in seconds.
ConfirmationTimeout(minInterval) == (minInterval + 1) * 2

\* The tasks of the series of the switchover function, in order.
SwitchoverTasks ==
  <<"createArnMap", "uploadArnMap", "startApplication",
    "awaitApplicationConfirmation", "invokeProvidedSwitchoverFunction">>

\* No switchover function is running.
IdleDeployer ==
  [ pc                     |-> "idle",
    minInterval            |-> 0,      \* config.coordinator.minInterval
    coordinatorConcurrency |-> 1,      \* config.coordinator.coordinatorConcurrency
    provided               |-> FALSE,  \* config.deployment.switchoverFunction is a function
    tasks                  |-> <<>>,   \* tasks of the series that were started
    failed                 |-> {},     \* requests that failed
    seeded                 |-> 0,      \* coordinators startApplication invoked
    now                    |-> 0,      \* seconds since awaitApplicationConfirmation was called
    timedOut               |-> FALSE,
    confirmationFileExists |-> FALSE,
    checks                 |-> 0,      \* calls of applicationConfirmationExists
    checkedAt              |-> <<>>,   \* seconds at which they were made
    switchovers            |-> 0,      \* calls of config.deployment.switchoverFunction
    callbacks              |-> 0,      \* calls of the callback of the switchover function
    error                  |-> None ]  \* what it was called with

\* A series that goes on to the next task after a task has failed.
SeriesContinues(d, error, next) ==
  [d EXCEPT !.pc = next, !.tasks = Append(@, next)]

\* async.series of the switchover function: after a task without error the next
\* task is started; an error goes to the callback and no further task is
\* started.
SeriesTask(d, error, next) ==
  IF error = None
    THEN [d EXCEPT !.pc = next, !.tasks = Append(@, next)]
    ELSE [d EXCEPT !.pc = "returned", !.callbacks = @ + 1, !.error = error]

\* The callback of the series after its last task.
SeriesEnd(d, error) ==
  [d EXCEPT !.pc = "returned", !.callbacks = @ + 1, !.error = error]

\* exports.arnMapFromOutputs: an error when the outputs of the stack are empty.
CreateArnMap ==
  /\ deployer.pc = "createArnMap"
  /\ \E outputs \in BOOLEAN :
       deployer' = IF outputs
         THEN SeriesTask(deployer, None, "uploadArnMap")
         ELSE SeriesTask([deployer EXCEPT !.failed = @ \cup {"createArnMap"}],
                         "outputs", "uploadArnMap")
  /\ UNCHANGED <<retrier, notDeployVars>>

\* s3Utilities.uploadArnMap
UploadArnMap ==
  /\ deployer.pc = "uploadArnMap"
  /\ \E ok \in BOOLEAN :
       deployer' = IF ok
         THEN SeriesTask(deployer, None, "startApplication")
         ELSE SeriesTask([deployer EXCEPT !.failed = @ \cup {"uploadArnMap"}],
                         "uploadArnMap", "startApplication")
  /\ UNCHANGED <<retrier, notDeployVars>>

\* exports.startApplication as the switchover function runs it: one iteration
\* of async.timesSeries, which ends at the first invocation that fails. After
\* the last one awaitApplicationConfirmation sets its timer and starts its
\* first pause.
SeedCoordinator ==
  /\ deployer.pc = "startApplication"
  /\ \E ok \in BOOLEAN :
       deployer' =
         IF ~ok
           THEN SeriesTask([deployer EXCEPT !.failed = @ \cup {"startApplication"}],
                           "invoke", "awaitApplicationConfirmation")
         ELSE IF deployer.seeded + 1 < deployer.coordinatorConcurrency
           THEN [deployer EXCEPT !.seeded = @ + 1]
           ELSE SeriesTask([deployer EXCEPT !.seeded = @ + 1], None,
                           "awaitApplicationConfirmation")
  /\ UNCHANGED <<retrier, notDeployVars>>

\* The final callback of the coordinator of the first generation uploads the
\* confirmation file.
UploadApplicationConfirmation ==
  /\ deployer.seeded > 0
  /\ confirmUploads = 0
  /\ confirmUploads' = 1
  /\ UNCHANGED <<coordinators, inFlight, concurrencyQueue, seedsLeft, startError,
                 config, notCoordVars>>

\* The action function of async.until up to its request: the pause of 2000
\* milliseconds passes. The timer of the timeout was set before the timer of
\* the pause and goes off first when both are due.
Pause ==
  /\ deployer.pc = "awaitApplicationConfirmation"
  /\ deployer' = [deployer EXCEPT
       !.pc = "applicationConfirmationExists",
       !.now = @ + PollPause,
       !.timedOut = @ \/ deployer.now + PollPause >=
                           ConfirmationTimeout(deployer.minInterval),
       !.checks = @ + 1,
       !.checkedAt = Append(@, deployer.now + PollPause)]
  /\ UNCHANGED <<retrier, notDeployVars>>

\* A callback that takes a file that was seen for a success, whatever the
\* timer says.
AwaitedSeenFirst(error, exists, timedOut) ==
  IF error # None THEN error
  ELSE IF exists THEN None
  ELSE "timeout"

\* The callback of async.until in awaitApplicationConfirmation: the error it
\* calls back with.
Awaited(error, exists, timedOut) ==
  IF error # None THEN error
  ELSE IF timedOut THEN "timeout"
  ELSE None

\* utilities.applicationConfirmationExists calls back after some time: with
\* true when the file is there, with false when it is not, with an error
\* when the request failed for another reason. The test of async.until then
\* either starts the next pause or ends the task; after the task the series
\* calls the switchover function of the configuration, if there is one.
ApplicationConfirmationExists ==
  /\ deployer.pc = "applicationConfirmationExists"
  /\ \E latency \in 0 .. MaxLatency, ok \in BOOLEAN, before \in BOOLEAN :
       LET now == deployer.now + latency
           timeout == ConfirmationTimeout(deployer.minInterval)
           timedOut == \/ deployer.timedOut
                       \/ now > timeout
                       \/ (now = timeout /\ before)
           exists == ok /\ confirmUploads > 0
           error == IF ok THEN None ELSE "confirmation"
           d == [deployer EXCEPT
                   !.now = now,
                   !.timedOut = timedOut,
                   !.confirmationFileExists = exists,
                   !.failed = IF ok THEN @ ELSE @ \cup {"awaitApplicationConfirmation"}] IN
       deployer' =
         IF error = None /\ ~exists /\ ~timedOut
           THEN [d EXCEPT !.pc = "awaitApplicationConfirmation"]
         ELSE IF Awaited(error, exists, timedOut) # None
           THEN SeriesTask(d, Awaited(error, exists, timedOut),
                           "invokeProvidedSwitchoverFunction")
         ELSE IF d.provided
           THEN [SeriesTask(d, None, "invokeProvidedSwitchoverFunction")
                   EXCEPT !.switchovers = @ + 1]
           ELSE SeriesEnd([d EXCEPT !.tasks = Append(@, "invokeProvidedSwitchoverFunction")],
                          None)
  /\ UNCHANGED <<retrier, notDeployVars>>

\* config.deployment.switchoverFunction calls back, with an error or without.
SwitchoverFunctionCallback ==
  /\ deployer.pc = "invokeProvidedSwitchoverFunction"
  /\ \E ok \in BOOLEAN :
       deployer' = IF ok
         THEN SeriesEnd(deployer, None)
         ELSE SeriesEnd([deployer EXCEPT !.failed = @ \cup {"invokeProvidedSwitchoverFunction"}],
                        "switchover")
  /\ UNCHANGED <<retrier, notDeployVars>>

\* ---------------------------------------------------------------------------
\* Specification of the coordinator chain.
\* ---------------------------------------------------------------------------

\* None of the coordinator chain is running or about to.
CoordinatorsQuiet ==
  /\ coordinators = [s \in Coordinators |-> IdleCoordinator]
  /\ inFlight = [g \in EventGenerations |-> 0]
  /\ concurrencyQueue = 0
  /\ confirmUploads = 0
  /\ seedsLeft = 0
  /\ startError = NoError
  /\ config = [minInterval |-> SafetyMargin + 1]

\* No invoker is running or about to.
InvokersQuiet ==
  /\ invokers = [i \in Invokers |-> IdleInvoker]
  /\ invokerEvents = <<>>
  /\ invokerQueue = 0
  /\ invoked = [n \in {ComponentNames[k] : k \in DOMAIN ComponentNames} |-> 0]

\* None is computing invocation counts.
\* No concurrency queue holds a message of an invocation that has ended.
QueuesClean ==
  uncleaned = [coordinator |-> 0, invoker |-> 0, component |-> 0]

\* No shared utility is running and nothing is being deployed.
DeployQuiet ==
  /\ retrier = IdleRetrier
  /\ deployer = IdleDeployer

CountsQuiet ==
  /\ splitter = IdleSplitter
  /\ counter = IdleCounter
  /\ router = IdleRouter
  /\ executor = IdleExecutor

\* No invocation of a wrapped handle is running or about to.
WrappersQuiet ==
  /\ component = NoComponent
  /\ arnMapLoaded = FALSE
  /\ wrapper = IdleWrapper
  /\ inputQueue = [m \in Messages |-> "visible"]
  /\ componentQueue = 0
  /\ failedBefore = {}

\* The stack is deployed and startApplication is about to run.
Init ==
  /\ QueuesClean
  /\ DeployQuiet
  /\ coordinators = [s \in Coordinators |-> IdleCoordinator]
  /\ inFlight = [g \in EventGenerations |-> 0]
  /\ concurrencyQueue = 0
  /\ confirmUploads = 0
  /\ seedsLeft = coordinatorConcurrency
  /\ startError = NoError
  /\ config = [minInterval |-> SafetyMargin + 1]
  /\ InvokersQuiet
  /\ WrappersQuiet
  /\ CountsQuiet

Next ==
  \/ StartApplication
  \/ Expire
  \/ \E s \in Coordinators : HandlerStart(s)
  \/ \E s \in Coordinators : LoadArnMap(s)
  \/ \E s \in Coordinators : Increment(s)
  \/ \E s \in Coordinators : Measure(s)
  \/ \E s \in Coordinators : Redundancy(s)
  \/ \E s \in Coordinators : Dispatch(s)
  \/ \E s \in Coordinators : Sleep(s)
  \/ \E s \in Coordinators : Decrement(s)
  \/ \E s \in Coordinators : Chain(s)
  \/ \E s \in Coordinators : Confirm(s)

Spec == Init /\ [][Next]_vars

\* ---------------------------------------------------------------------------
\* Specification of the coordinator chains that are left when some of the
\* chains of a deployment have been lost.
\* ---------------------------------------------------------------------------

\* Fewer coordinator events than coordinatorConcurrency are in flight, of the
\* first generation or passed on by it, and no coordinator is running.
InitRepair ==
  /\ QueuesClean
  /\ DeployQuiet
  /\ coordinators = [s \in Coordinators |-> IdleCoordinator]
  /\ \E g \in {NoGeneration, 1}, left \in 1 .. coordinatorConcurrency - 1 :
       /\ left <= MaxInFlight
       /\ inFlight = [h \in EventGenerations |-> IF h = g THEN left ELSE 0]
  /\ concurrencyQueue = 0
  /\ confirmUploads = 0
  /\ seedsLeft = 0
  /\ startError = NoError
  /\ config = [minInterval |-> SafetyMargin + 1]
  /\ InvokersQuiet
  /\ WrappersQuiet
  /\ CountsQuiet

NextRepair ==
  \/ Expire
  \/ \E s \in Coordinators : HandlerStart(s)
  \/ \E s \in Coordinators : LoadArnMap(s)
  \/ \E s \in Coordinators : Increment(s)
  \/ \E s \in Coordinators : Measure(s)
  \/ \E s \in Coordinators : Redundancy(s)
  \/ \E s \in Coordinators : Dispatch(s)
  \/ \E s \in Coordinators : Sleep(s)
  \/ \E s \in Coordinators : Decrement(s)
  \/ \E s \in Coordinators : Chain(s)
  \/ \E s \in Coordinators : Confirm(s)

SpecRepair == InitRepair /\ [][NextRepair]_vars

\* Lambda starts the handler on every event it accepted, and every request a
\* handler makes is answered.
FairRepair ==
  \A s \in Coordinators :
    /\ WF_vars(HandlerStart(s))
    /\ WF_vars(LoadArnMap(s))
    /\ WF_vars(Increment(s))
    /\ WF_vars(Measure(s))
    /\ WF_vars(Redundancy(s))
    /\ WF_vars(Dispatch(s))
    /\ WF_vars(Sleep(s))
    /\ WF_vars(Decrement(s))
    /\ WF_vars(Chain(s))
    /\ WF_vars(Confirm(s))

SpecRepairFair == SpecRepair /\ FairRepair

\* ---------------------------------------------------------------------------
\* Specification of one coordinator chain in time.
\* ---------------------------------------------------------------------------

\* A coordinator event has been accepted by Lambda: the first of a
\* deployment, or the one a coordinator passed on.
InitInterval ==
  /\ QueuesClean
  /\ DeployQuiet
  /\ coordinators = [s \in Coordinators |-> IdleCoordinator]
  /\ \E g \in {NoGeneration, 1} :
       inFlight = [h \in EventGenerations |-> IF h = g THEN 1 ELSE 0]
  /\ concurrencyQueue = 0
  /\ confirmUploads = 0
  /\ seedsLeft = 0
  /\ startError = NoError
  /\ config \in [minInterval : MinIntervals]
  /\ InvokersQuiet
  /\ WrappersQuiet
  /\ CountsQuiet

NextInterval ==
  \/ Expire
  \/ \E s \in Coordinators : Tick(s)
  \/ \E s \in Coordinators : HandlerStart(s)
  \/ \E s \in Coordinators : LoadArnMap(s)
  \/ \E s \in Coordinators : Increment(s)
  \/ \E s \in Coordinators : Measure(s)
  \/ \E s \in Coordinators : Redundancy(s)
  \/ \E s \in Coordinators : Dispatch(s)
  \/ \E s \in Coordinators : Sleep(s)
  \/ \E s \in Coordinators : Decrement(s)
  \/ \E s \in Coordinators : Chain(s)
  \/ \E s \in Coordinators : Confirm(s)

SpecInterval == InitInterval /\ [][NextInterval]_vars

\* ---------------------------------------------------------------------------
\* Specification of the invoker.
\* ---------------------------------------------------------------------------

\* The events an invoker is first invoked with: a count for each component,
\* or no components property at all.
InvokerInputs ==
  {NoComponents} \cup
  { [k \in DOMAIN ComponentNames |-> [name |-> ComponentNames[k], count |-> counts[k]]] :
      counts \in [DOMAIN ComponentNames -> 0 .. MaxCount] }

\* An invoker event has been accepted by Lambda.
InitInvoker ==
  /\ QueuesClean
  /\ DeployQuiet
  /\ CoordinatorsQuiet
  /\ WrappersQuiet
  /\ CountsQuiet
  /\ invokers = [i \in Invokers |-> IdleInvoker]
  /\ invokerEvents \in {<<e>> : e \in InvokerInputs}
  /\ invokerQueue = 0
  /\ invoked = [n \in {ComponentNames[k] : k \in DOMAIN ComponentNames} |-> 0]

NextInvoker ==
  \/ InvokerExpire
  \/ \E i \in Invokers : InvokerStart(i)
  \/ \E i \in Invokers : InvokerLoadArnMap(i)
  \/ \E i \in Invokers : InvokerIncrement(i)
  \/ \E i \in Invokers : InvokerDispatch(i)
  \/ \E i \in Invokers : InvokerDecrement(i)

SpecInvoker == InitInvoker /\ [][NextInvoker]_vars

\* ---------------------------------------------------------------------------
\* Specification of the wrapper.
\* ---------------------------------------------------------------------------

\* A component of either type is deployed; producers have put messages on
\* the input queue of an event from message component.
InitWrapper ==
  /\ QueuesClean
  /\ DeployQuiet
  /\ CoordinatorsQuiet
  /\ InvokersQuiet
  /\ CountsQuiet
  /\ component \in [type : {EVENT_FROM_MESSAGE, EVENT_FROM_INVOCATION}]
  /\ arnMapLoaded = FALSE
  /\ wrapper = IdleWrapper
  /\ inputQueue = [m \in Messages |-> "visible"]
  /\ componentQueue = 0
  /\ failedBefore = {}

NextWrapper ==
  \/ WrapperStart
  \/ WrapperLoadArnMap
  \/ WrapperIncrement
  \/ handleAsEventFromInvocationType
  \/ handleAsEventFromMessageType
  \/ HandlerCall
  \/ HandlerThrow
  \/ sendData
  \/ deleteMessageFromInputQueue
  \/ WrapperDecrement
  \/ Forward
  \/ WrapperExpire
  \/ \E m \in Messages : VisibilityTimeout(m)

SpecWrapper == InitWrapper /\ [][NextWrapper]_vars

\* The wrapper where everything is given its turn: Lambda runs each step of an
\* invocation, the handler ends by a call or an exception, the coordinator
\* keeps invoking the component, the visibility timeout of a message ends,
\* and a request that is made again and again succeeds in the end, a receive
\* returning every message that stays visible.
FairWrapper ==
  /\ WF_vars(WrapperStart)
  /\ WF_vars(WrapperLoadArnMap)
  /\ SF_vars(WrapperLoadArnMap /\ arnMapLoaded')
  /\ WF_vars(WrapperIncrement)
  /\ WF_vars(handleAsEventFromInvocationType)
  /\ WF_vars(handleAsEventFromMessageType)
  /\ \A m \in Messages :
       SF_vars(handleAsEventFromMessageType /\ wrapper'.receiptHandle = m)
  /\ WF_vars(HandlerCall \/ HandlerThrow)
  /\ WF_vars(sendData)
  /\ WF_vars(deleteMessageFromInputQueue)
  /\ WF_vars(WrapperDecrement)
  /\ WF_vars(Forward)
  /\ \A m \in Messages : WF_vars(VisibilityTimeout(m))

SpecWrapperFair == SpecWrapper /\ FairWrapper

\* ---------------------------------------------------------------------------
\* Specification of the routing.
\* ---------------------------------------------------------------------------

\* lc.sendData has been called with the outcome of a handler: an error, a
\* result, both or neither.
InitRouter ==
  /\ QueuesClean
  /\ DeployQuiet
  /\ CoordinatorsQuiet
  /\ InvokersQuiet
  /\ WrappersQuiet
  /\ splitter = IdleSplitter
  /\ counter = IdleCounter
  /\ executor = IdleExecutor
  /\ router \in
       { [IdleRouter EXCEPT !.pc = "called",
                            !.routing = routing,
                            !.error = error,
                            !.result = result] :
           routing \in Routings,
           error \in {None, "e1"},
           result \in {None, "r1"} }

NextRouter == SendData

SpecRouter == InitRouter /\ [][NextRouter]_vars

\* ---------------------------------------------------------------------------
\* Specification of the flow control.
\* ---------------------------------------------------------------------------

\* executeConcurrently has been called with some functions, or none, and a
\* limit.
InitExecutor ==
  /\ QueuesClean
  /\ DeployQuiet
  /\ CoordinatorsQuiet
  /\ InvokersQuiet
  /\ WrappersQuiet
  /\ splitter = IdleSplitter
  /\ counter = IdleCounter
  /\ router = IdleRouter
  /\ executor \in
       { [IdleExecutor EXCEPT !.pc = "called",
                              !.fns = [k \in 1 .. n |-> AnyFunction],
                              !.concurrency = limit] :
           n \in 0 .. MaxFunctions, limit \in 1 .. maxApiConcurrency }

NextExecutor ==
  \/ ExecuteConcurrently
  \/ Process
  \/ \E k \in DOMAIN executor.tasks : OnTaskCompletion(k)

SpecExecutor == InitExecutor /\ [][NextExecutor]_vars

\* ---------------------------------------------------------------------------
\* Specification of the application status.
\* ---------------------------------------------------------------------------

\* A coordinator of some application is about to measure its status.
InitStatus ==
  /\ QueuesClean
  /\ DeployQuiet
  /\ CoordinatorsQuiet
  /\ InvokersQuiet
  /\ WrappersQuiet
  /\ splitter = IdleSplitter
  /\ router = IdleRouter
  /\ executor = IdleExecutor
  /\ counter \in
       { [IdleCounter EXCEPT !.pc = "start",
                             !.components = components,
                             !.coordinatorConcurrency = share] :
           components \in ConfigComponents, share \in 1 .. MaxShare }

NextStatus ==
  \/ DetermineApplicationStatus
  \/ Process
  \/ \E k \in DOMAIN executor.tasks : GetQueueMessageCount(k)
  \/ GetInvocationCounts

SpecStatus == InitStatus /\ [][NextStatus]_vars

\* ---------------------------------------------------------------------------
\* Specification of retry.
\* ---------------------------------------------------------------------------

\* utilities.retry has been called with some function and message.
InitRetry ==
  /\ QueuesClean
  /\ CoordinatorsQuiet
  /\ InvokersQuiet
  /\ WrappersQuiet
  /\ CountsQuiet
  /\ deployer = IdleDeployer
  /\ retrier \in
       { [IdleRetrier EXCEPT !.pc = "runFn", !.retryErrorMessage = message] :
           message \in RetryErrorMessages }

NextRetry == RunFn \/ FnCallback

SpecRetry == InitRetry /\ [][NextRetry]_vars

\* ---------------------------------------------------------------------------
\* Specification of the switchover function.
\* ---------------------------------------------------------------------------

\* The switchover function of some deployment has been called.
InitSwitchover ==
  /\ QueuesClean
  /\ CoordinatorsQuiet
  /\ InvokersQuiet
  /\ WrappersQuiet
  /\ CountsQuiet
  /\ retrier = IdleRetrier
  /\ deployer \in
       { [IdleDeployer EXCEPT !.pc = "createArnMap",
                              !.tasks = <<"createArnMap">>,
                              !.minInterval = minInterval,
                              !.coordinatorConcurrency = concurrency,
                              !.provided = provided] :
           minInterval \in 0 .. MaxMinInterval,
           concurrency \in 1 .. coordinatorConcurrency,
           provided \in BOOLEAN }

NextSwitchover ==
  \/ CreateArnMap
  \/ UploadArnMap
  \/ SeedCoordinator
  \/ UploadApplicationConfirmation
  \/ Pause
  \/ ApplicationConfirmationExists
  \/ SwitchoverFunctionCallback

SpecSwitchover == InitSwitchover /\ [][NextSwitchover]_vars

\* ---------------------------------------------------------------------------
\* Specification of the splitter.
\* ---------------------------------------------------------------------------

\* splitInvocationCounts has been called.
InitSplitter ==
  /\ QueuesClean
  /\ DeployQuiet
  /\ CoordinatorsQuiet
  /\ InvokersQuiet
  /\ WrappersQuiet
  /\ splitter \in
       { [IdleSplitter EXCEPT !.pc = "called",
                              !.invocationCounts = counts,
                              !.maxInvocationCount = max] :
           counts \in SplitterInputs, max \in 1 .. MaxBatch }
  /\ counter = IdleCounter
  /\ router = IdleRouter
  /\ executor = IdleExecutor

NextSplitter == SplitInvocationCounts

SpecSplitter == InitSplitter /\ [][NextSplitter]_vars

\* ---------------------------------------------------------------------------
\* Specification of the invocation counts.
\* ---------------------------------------------------------------------------

\* getInvocationCounts has been called with an application status.
InitCounter ==
  /\ QueuesClean
  /\ DeployQuiet
  /\ CoordinatorsQuiet
  /\ InvokersQuiet
  /\ WrappersQuiet
  /\ splitter = IdleSplitter
  /\ router = IdleRouter
  /\ executor = IdleExecutor
  /\ counter \in
       { [IdleCounter EXCEPT !.pc = "called",
                             !.components = <<a, b>>,
                             !.coordinatorConcurrency = share] :
           a \in StatusComponents(StatusNames[1]),
           b \in StatusComponents(StatusNames[2]),
           share \in 1 .. MaxShare }

NextCounter == GetInvocationCounts

SpecCounter == InitCounter /\ [][NextCounter]_vars

\* ---------------------------------------------------------------------------
\* Specification of the users of the concurrency queues: a deployment runs
\* the coordinators, or an invoker, or the wrapper of a component.
\* ---------------------------------------------------------------------------

InitConcurrency == Init \/ InitInvoker \/ InitWrapper

NextConcurrency == Next \/ NextInvoker \/ NextWrapper

SpecConcurrency == InitConcurrency /\ [][NextConcurrency]_vars

TypeOK ==
  /\ concurrencyQueue \in 0 .. MaxQueueDepth
  /\ seedsLeft \in 0 .. coordinatorConcurrency
  /\ \A s \in Coordinators : coordinators[s].generation \in 0 .. MaxGeneration

\* ---------------------------------------------------------------------------
\* Properties of the wrapper.
\* ---------------------------------------------------------------------------

\* C1: whatever calls are made on the wrapped context, lc.finalizeInvocation
\* runs once, with the mode and the arguments of the first call, and the
\* original context is called once: with that call unless lc.sendData failed.
SingleFinalization ==
  /\ wrapper.finalizations <= 1
  /\ Len(wrapper.forwarded) <= 1
  /\ wrapper.calls >= 1 =>
       /\ wrapper.finalizations = 1
       /\ wrapper.finalizing = wrapper.first
       /\ wrapper.pc = "done" =>
            /\ Len(wrapper.forwarded) = 1
            /\ wrapper.sendError = None => wrapper.forwarded[1] = wrapper.first

\* C1 witness: the handler called its context more than once, the later call
\* in another mode, and the invocation ended with the success the first call
\* reported.
LaterCallsIgnored ==
  /\ wrapper.pc = "done"
  /\ wrapper.handling
  /\ wrapper.calls > 1
  /\ wrapper.first.mode = "succeed"
  /\ wrapper.forwarded = <<wrapper.first>>

\* C4: lc.finalizeInvocation deletes the message from the input queue if and
\* only if the mode is succeed, or done without an error, and the component
\* is of type eventFromMessage; it deletes at most once.
DeleteOnlyOnSuccessFromMessage ==
  /\ wrapper.deletes <= 1
  /\ wrapper.pc \in {"decrement", "forward", "done"} /\ wrapper.finalizations = 1 =>
       (wrapper.deletes = 1 <=>
          /\ component.type = EVENT_FROM_MESSAGE
          /\ \/ wrapper.finalizing.mode = "succeed"
             \/ wrapper.finalizing.mode = "done" /\ wrapper.finalizing.error = None)
  /\ wrapper.finalizations = 0 => wrapper.deletes = 0

\* C4 witness: a handler of an eventFromMessage component called done
\* without an error and the message it was given is deleted.
MessageDeletedAfterDone ==
  /\ wrapper.pc = "done"
  /\ wrapper.finalizing.mode = "done"
  /\ wrapper.deletes = 1
  /\ wrapper.receiptHandle # NoReceipt
  /\ inputQueue[wrapper.receiptHandle] = "deleted"

\* The invocation that received message m has ended in a failure.
FailedWith(m) ==
  /\ wrapper.receiptHandle = m
  /\ wrapper.pc = "done"
  /\ wrapper.finalizations = 1
  /\ ~Succeeded(wrapper.finalizing)

\* The handler is running on message m.
Handling(m) ==
  /\ wrapper.receiptHandle = m
  /\ wrapper.pc = "handler"

\* C3: a message whose handler failed is not deleted by that invocation: it
\* becomes visible again and a later invocation receives it; and a message is
\* deleted only by the invocation whose handler reported success for it.
FailedMessageRedelivered ==
  /\ [](\A m \in Messages :
         FailedWith(m) => (wrapper.deletes = 0 /\ inputQueue[m] # "deleted"))
  /\ [][\A m \in Messages :
         (inputQueue[m] # "deleted" /\ inputQueue'[m] = "deleted") =>
           (wrapper.receiptHandle = m /\ Succeeded(wrapper.finalizing))]_vars
  /\ \A m \in Messages : FailedWith(m) ~> (inputQueue[m] = "visible")
  /\ \A m \in Messages : FailedWith(m) ~> Handling(m)

\* C3 witness: the handler of a message failed before, the message was not
\* deleted, and the handler is running on it again.
MessageHandledAgain ==
  \E m \in Messages :
    /\ Handling(m)
    /\ m \in failedBefore

\* ---------------------------------------------------------------------------
\* Properties of the invocation counts.
\* ---------------------------------------------------------------------------

\* The component of the status an invocation count is for.
StatusOf(name) ==
  CHOOSE statusComponent \in {counter.components[k] : k \in DOMAIN counter.components} :
    statusComponent.name = name

\* C17: every invocation count getInvocationCounts returns is for an
\* eventFromMessage component whose measurements are numbers, and is at most
\* the room left under its maxConcurrency, 0 when there is none, and at most
\* its queuedMessageCount.
CountWithinRoomAndQueue ==
  counter.pc = "returned" =>
    \A k \in DOMAIN counter.invocationCounts :
      LET count == counter.invocationCounts[k].count
          statusComponent == StatusOf(counter.invocationCounts[k].name) IN
      /\ Counted(statusComponent)
      /\ count >= 0
      /\ count <= Max(0, statusComponent.maxConcurrency - statusComponent.concurrency)
      /\ count <= statusComponent.queuedMessageCount

\* C17 witness: a count shared by two coordinators was rounded up, to 2 of 3
\* queued messages.
CountRoundedUp ==
  /\ counter.pc = "returned"
  /\ counter.coordinatorConcurrency = 2
  /\ \E k \in DOMAIN counter.invocationCounts :
       /\ counter.invocationCounts[k].count = 2
       /\ StatusOf(counter.invocationCounts[k].name).queuedMessageCount = 3

\* The sum of all counts given to the splitter.
SplitterTotal == sumOfInvocationCounts(splitter.invocationCounts)

\* C14: the counts splitInvocationCounts leaves to this instance sum to at
\* most maxInvocationCount.
LocalWithinBatch ==
  splitter.pc = "returned" =>
    sumOfInvocationCounts(splitter.split.localInvoker)
      <= splitter.maxInvocationCount

\* C14 witness: counts too many for one instance were split and a remainder
\* was left to this instance.
RemainderKeptLocal ==
  /\ splitter.pc = "returned"
  /\ SplitterTotal > splitter.maxInvocationCount
  /\ sumOfInvocationCounts(splitter.split.localInvoker) > 0

\* C15: every set of counts for another invoker, the last one excepted, sums
\* to exactly maxInvocationCount.
OtherInvokersFull ==
  splitter.pc = "returned" =>
    \A k \in 1 .. Len(splitter.split.otherInvoker) - 1 :
      sumOfInvocationCounts(splitter.split.otherInvoker[k])
        = splitter.maxInvocationCount

\* C15 witness: a count larger than maxInvocationCount was split over two
\* full sets, followed by a last set that is not full.
OversizedCountSplit ==
  /\ splitter.pc = "returned"
  /\ Len(splitter.split.otherInvoker) = 3
  /\ Len(splitter.split.otherInvoker[1]) > 1
  /\ Len(splitter.split.otherInvoker[2]) = 1
  /\ sumOfInvocationCounts(splitter.split.otherInvoker[3])
       # splitter.maxInvocationCount

S4Counts ==
  <<[name |-> "a", count |-> 12], [name |-> "b", count |-> 1],
    [name |-> "c", count |-> 2]>>

\* splitInvocationCounts has returned for the example, with
\* maxInvocationCount 6.
S4Returned ==
  /\ splitter.pc = "returned"
  /\ splitter.maxInvocationCount = 6
  /\ splitter.invocationCounts = S4Counts

\* C18 as claimed: for the example the sets for other invokers are a:6 and
\* a:6, and b:1 and c:2 are left to this instance.
S4SplitFromFront ==
  S4Returned =>
    /\ splitter.split.otherInvoker =
         << <<[name |-> "a", count |-> 6]>>, <<[name |-> "a", count |-> 6]>> >>
    /\ splitter.split.localInvoker =
         <<[name |-> "b", count |-> 1], [name |-> "c", count |-> 2]>>

\* C18 as amended: the counts are taken from the end of the array, so the
\* first set for another invoker is c:2, b:1, a:3, the second is a:6, and a:3
\* is left to this instance.
S4SplitFromEnd ==
  S4Returned =>
    /\ splitter.split.otherInvoker =
         << <<[name |-> "c", count |-> 2], [name |-> "b", count |-> 1],
              [name |-> "a", count |-> 3]>>,
            <<[name |-> "a", count |-> 6]>> >>
    /\ splitter.split.localInvoker = <<[name |-> "a", count |-> 3]>>

\* C18 witness: the example was split into two sets for other invokers and a
\* remainder of 3 for this instance.
S4SplitDone ==
  /\ S4Returned
  /\ Len(splitter.split.otherInvoker) = 2
  /\ sumOfInvocationCounts(splitter.split.localInvoker) = 3

\* ---------------------------------------------------------------------------
\* Properties of the concurrency count.
\* ---------------------------------------------------------------------------

\* C2: an invocation of the wrapper, the coordinator or the invoker
\* decrements the concurrency count at most once, and only if its increment
\* succeeded.
DecrementOnlyAfterIncrement ==
  /\ wrapper.decrements <= 1
  /\ wrapper.decrements = 1 => (wrapper.incremented /\ "increment" \notin wrapper.failed)
  /\ \A s \in Coordinators :
       /\ coordinators[s].decrements <= 1
       /\ coordinators[s].decrements = 1 =>
            ("increment" \in coordinators[s].steps
              /\ "increment" \notin coordinators[s].failed)
  /\ \A i \in Invokers :
       /\ invokers[i].decrements <= 1
       /\ invokers[i].decrements = 1 =>
            (invokers[i].incremented /\ "increment" \notin invokers[i].failed)

\* C2 witness: a coordinator whose increment failed has reached the end of
\* its invocation without a decrement.
NoDecrementAfterFailedIncrement ==
  \E s \in Coordinators :
    /\ coordinators[s].pc = "done"
    /\ "increment" \in coordinators[s].failed
    /\ coordinators[s].decrements = 0

\* ---------------------------------------------------------------------------
\* Properties of the coordinator.
\* ---------------------------------------------------------------------------

Loaded(c) == "loadArnMap" \in c.steps /\ "loadArnMap" \notin c.failed

Incremented(c) == "increment" \in c.steps /\ "increment" \notin c.failed

\* The tasks of the series that hand an error to its callback.
ReportingSteps == {"loadArnMap", "increment", "redundancy", "decrement"}

\* C5: once the ARN map is loaded the coordinator invokes its successor
\* exactly once, whichever of the tasks of the series failed: never before the
\* final callback, and once from then on.
ChainAttemptedOnce ==
  \A s \in Coordinators :
    LET c == coordinators[s] IN
    /\ c.chains <= 1
    /\ (Loaded(c) /\ c.pc \in {"confirm", "done"}) => c.chains = 1
    /\ c.pc \in {"increment", "measure", "redundancy", "dispatch", "sleep",
                 "decrement", "chain"} => c.chains = 0

\* C5 witness: a coordinator in whose series a task reported an error has
\* invoked its successor.
ChainAfterFailedStep ==
  \E s \in Coordinators :
    /\ coordinators[s].pc = "done"
    /\ coordinators[s].failed \cap {"increment", "redundancy", "decrement"} # {}
    /\ coordinators[s].chains = 1

\* C6: a coordinator whose ARN map load failed has called context.done with
\* that error and has done nothing else: no increment, no decrement, no
\* dispatch, no additional coordinator and no successor.
LoadFailureAborts ==
  \A s \in Coordinators :
    LET c == coordinators[s] IN
    "loadArnMap" \in c.failed =>
      /\ c.pc = "done"
      /\ c.dones = 1
      /\ c.doneError = "loadArnMap"
      /\ c.steps = {"loadArnMap"}
      /\ c.increments = 0
      /\ c.decrements = 0
      /\ c.extras = 0
      /\ c.chains = 0
      /\ c.uploads = 0

\* C6 witness: the load of the ARN map of a coordinator failed.
LoadFailed ==
  \E s \in Coordinators : "loadArnMap" \in coordinators[s].failed

\* C7: the generation of a coordinator is the generation of the event it was
\* invoked with plus one, an event without generation counting as 0; the
\* event it invokes its successor with carries exactly that generation.
GenerationIncrements ==
  \A s \in Coordinators :
    LET c == coordinators[s] IN
    c.pc # "idle" =>
      /\ c.generation = (IF c.incoming = NoGeneration THEN 0 ELSE c.incoming) + 1
      /\ (c.chains = 1 /\ c.invokeError = NoError) => c.chained = c.generation
      /\ c.chained # NoGeneration => c.chained = c.generation

\* C7 witness: a coordinator invoked with generation 1 runs as generation 2
\* and has passed generation 2 on.
SecondGenerationChained ==
  \E s \in Coordinators :
    /\ coordinators[s].incoming = 1
    /\ coordinators[s].generation = 2
    /\ coordinators[s].chained = 2

\* C8 as claimed: the confirmation file is uploaded at most once in a
\* deployment.
ConfirmationUploadedAtMostOnce == confirmUploads <= 1

\* C8 as amended: only coordinators of generation 1 upload the confirmation
\* file, each at most once, so a deployment uploads it at most once per
\* coordinator startApplication invoked.
ConfirmationUploadedOncePerSeed ==
  /\ confirmUploads <= coordinatorConcurrency
  /\ \A s \in Coordinators :
       /\ coordinators[s].uploads <= 1
       /\ coordinators[s].uploads = 1 => coordinators[s].generation = 1

\* C8 witness: the confirmation file was uploaded by every one of the
\* coordinators that startApplication invoked.
ConfirmationUploadedByEverySeed ==
  /\ coordinatorConcurrency > 1
  /\ confirmUploads = coordinatorConcurrency

\* C9: a coordinator goes on to upload the confirmation file only if its
\* generation is 1, the series reported no error and the invocation of the
\* successor succeeded.
ConfirmationOnlyOnSuccess ==
  \A s \in Coordinators :
    LET c == coordinators[s] IN
    (c.pc = "confirm" \/ c.uploads > 0) =>
      /\ c.generation = 1
      /\ c.error = NoError
      /\ c.invokeError = NoError
      /\ c.chained = 1
      /\ c.failed \cap (ReportingSteps \cup {"chain"}) = {}

\* C9 witness: a coordinator of generation 1 uploaded the confirmation file
\* and called context.done without an error.
ConfirmationUploaded ==
  \E s \in Coordinators :
    /\ coordinators[s].pc = "done"
    /\ coordinators[s].uploads = 1
    /\ coordinators[s].doneError = NoError

\* C11: a coordinator invocation calls context.done once on every path: not
\* before it has ended, never twice, and with an error when the load of the
\* ARN map, a task of the series, the invocation of the successor or the
\* upload of the confirmation file failed.
DoneCalledOnce ==
  \A s \in Coordinators :
    LET c == coordinators[s] IN
    /\ c.dones <= 1
    /\ c.pc = "done" <=> c.dones = 1
    /\ (c.pc = "done" /\ c.failed \cap (ReportingSteps \cup {"chain", "confirm"}) # {})
         => c.doneError # NoError
    /\ (c.pc = "done" /\ "chain" \in c.failed /\ c.error = NoError)
         => c.doneError = c.invokeError

\* C11 witness: the invocation of the successor failed after a series
\* without error, and context.done was called with that error.
DoneAfterFailedChain ==
  \E s \in Coordinators :
    /\ coordinators[s].pc = "done"
    /\ coordinators[s].dones = 1
    /\ coordinators[s].error = NoError
    /\ "chain" \in coordinators[s].failed
    /\ coordinators[s].doneError = "invoke"

\* C19: ensureCoordinatorConcurrency calls utilities.invoke once for every
\* coordinator short of coordinatorConcurrency, each call with the event of
\* this invocation, when event.generation is 2 or more and the measured
\* concurrency is a number below coordinatorConcurrency; at generation 1, with
\* no measurement, or with enough coordinators measured, it makes no call.
RepairsShortfallOnly ==
  \A s \in Coordinators :
    LET c == coordinators[s]
        short == /\ c.generation >= 2
                 /\ c.concurrency # Null
                 /\ c.concurrency < coordinatorConcurrency IN
    c.issued # Null =>
      /\ c.generation = IncrementGeneration(c.incoming)
      /\ short => /\ c.issued = coordinatorConcurrency - c.concurrency
                  /\ c.issuedEvent = c.generation
      /\ ~short => /\ c.issued = 0
                   /\ c.issuedEvent = NoGeneration
                   /\ c.extras = 0

\* C19 witness: a coordinator of the second generation measured one
\* coordinator short and invoked one more with its own event.
ShortfallRepaired ==
  \E s \in Coordinators :
    /\ coordinators[s].generation = 2
    /\ coordinators[s].concurrency = coordinatorConcurrency - 1
    /\ coordinators[s].issued = 1
    /\ coordinators[s].issuedEvent = 2
    /\ coordinators[s].extras = 1

\* C20: lc.finalizeInvocation takes its steps one after the other in the order
\* lc.sendData, lc.deleteMessageFromInputQueue where the outcome asks for it,
\* decrementConcurrencyCount where the count was incremented, and the call on
\* the original context, which is made only once the steps before it are done.
FinalizationInOrder ==
  wrapper.finalizations > 0 =>
    LET deleting == IF DeletesMessage(component.type, wrapper.finalizing)
                      THEN <<"deleteMessage">> ELSE <<>>
        decrementing == IF wrapper.incremented THEN <<"decrement">> ELSE <<>>
        expected == <<"sendData">> \o deleting \o decrementing \o <<"forward">>
        taken == Len(wrapper.performed) IN
    /\ taken <= Len(expected)
    /\ wrapper.performed = SubSeq(expected, 1, taken)
    /\ wrapper.forwarded # <<>> <=> wrapper.performed = expected
    /\ wrapper.forwarded # <<>> =>
         /\ wrapper.deletes = Len(deleting)
         /\ wrapper.decrements = Len(decrementing)
    /\ wrapper.pc = "done" => wrapper.forwarded # <<>>

\* C20 witness: done without error for an event from message component was
\* routed, the message deleted, the count decremented and done called on the
\* original context, in that order.
FinalizedInFourSteps ==
  /\ wrapper.pc = "done"
  /\ component.type = EVENT_FROM_MESSAGE
  /\ wrapper.finalizing.mode = "done"
  /\ wrapper.performed = <<"sendData", "deleteMessage", "decrement", "forward">>
  /\ wrapper.failed = {}
  /\ Len(wrapper.forwarded) = 1
  /\ wrapper.forwarded[1].mode = "done"
  /\ wrapper.forwarded[1].error = None

\* C21: a failed lc.sendData or a failed delete of the message keeps neither
\* the decrement of the concurrency count nor the call on the original context
\* from being made, and a failed decrement does not keep that call from being
\* made: a finalization ends with all of them done.
FailedStepsSkipNothing ==
  LET early == wrapper.failed \cap {"sendData", "deleteMessage"} # {}
      past(steps) == wrapper.pc \notin ({"sendData"} \cup steps) IN
  wrapper.finalizations > 0 =>
    /\ (early /\ past({"deleteMessage", "decrement"}) /\ wrapper.incremented)
         => wrapper.decrements = 1
    /\ (early /\ wrapper.pc = "done") => Len(wrapper.forwarded) = 1
    /\ "decrement" \in wrapper.failed =>
         /\ wrapper.pc \in {"forward", "done"}
         /\ wrapper.pc = "done" => Len(wrapper.forwarded) = 1

\* C21 witness: lc.sendData, the delete and the decrement all failed, and the
\* original context was called.
AllStepsFailedAndForwarded ==
  /\ wrapper.pc = "done"
  /\ wrapper.failed = {"sendData", "deleteMessage", "decrement"}
  /\ wrapper.deletes = 1
  /\ wrapper.decrements = 1
  /\ Len(wrapper.forwarded) = 1

\* The finalization has ended after an error of lc.sendData.
ForwardedAfterSendError ==
  /\ wrapper.pc = "done"
  /\ wrapper.finalizations > 0
  /\ wrapper.sendError # None

NamesSkippedFunctionCalledOnError ==
  (router.pc = "returned" /\ router.error # None) =>
    /\ router.routing.kind \in {"name", "names"} =>
         /\ router.sent = <<>>
         /\ router.sendError = None
    /\ router.routing.kind = "function" =>
         /\ router.evaluated = <<router.error, router.result>>
         /\ Len(router.sent) =
              Cardinality({k \in DOMAIN router.routing.returns :
                             WellFormed(router.routing.returns[k])})
         /\ \A k \in DOMAIN router.routing.returns :
              WellFormed(router.routing.returns[k]) =>
                \E j \in DOMAIN router.sent :
                  /\ router.sent[j].name = router.routing.returns[k].name
                  /\ router.sent[j].data = router.routing.returns[k].data

\* C23 witness: with an error, a routing function returned a well-formed
\* entry beside one that is not, and the well-formed one was sent.
EntrySentOnError ==
  /\ router.pc = "returned"
  /\ router.error # None
  /\ router.routing.kind = "function"
  /\ Len(router.routing.returns) = 2
  /\ Len(router.sent) = 1
  /\ router.sent[1].name \in KnownDestinations

\* C24: when an exception of the handler is what ends it, the finalization
\* runs once: lc.sendData is given the exception, the message is not deleted,
\* the concurrency count that was incremented is decremented, and fail is
\* called on the original context with the exception.
UncaughtExceptionFinalized ==
  (wrapper.pc = "done" /\ wrapper.first = UncaughtException) =>
    /\ wrapper.finalizations = 1
    /\ wrapper.finalizing = UncaughtException
    /\ wrapper.routed = << <<"uncaught", None>> >>
    /\ wrapper.deletes = 0
    /\ wrapper.receiptHandle # NoReceipt =>
         inputQueue[wrapper.receiptHandle] # "deleted"
    /\ wrapper.decrements = IF wrapper.incremented THEN 1 ELSE 0
    /\ wrapper.forwarded = <<UncaughtException>>

\* C24 witness: the handler of an event from message component threw, and the
\* invocation ended with the count decremented, the message kept and fail
\* called.
ExceptionOfMessageHandlerFinalized ==
  /\ wrapper.pc = "done"
  /\ wrapper.first = UncaughtException
  /\ component.type = EVENT_FROM_MESSAGE
  /\ wrapper.receiptHandle # NoReceipt
  /\ wrapper.decrements = 1
  /\ wrapper.failed = {}
  /\ wrapper.forwarded = <<UncaughtException>>

\* C25: when the receive of an event from message component fails or returns
\* no message, the handler is not called and fail is called on the wrapped
\* context, with the error of the receive or with an error saying there is no
\* message; the finalization runs, deletes no message, and ends with that
\* fail on the original context.
NoMessageFailsWithoutHandler ==
  "receiveMessage" \in wrapper.failed =>
    /\ ~wrapper.handling
    /\ wrapper.receiptHandle = NoReceipt
    /\ wrapper.calls = 1
    /\ wrapper.first \in [mode : {"fail"}, error : {"receiveMessage", "noMessage"},
                          result : {None}]
    /\ wrapper.finalizations = 1
    /\ wrapper.finalizing = wrapper.first
    /\ wrapper.deletes = 0
    /\ wrapper.pc \in {"sendData", "deleteMessage", "decrement", "forward", "done"}
    /\ wrapper.pc = "done" =>
         /\ wrapper.routed = << <<wrapper.first.error, None>> >>
         /\ wrapper.decrements = IF wrapper.incremented THEN 1 ELSE 0
         /\ wrapper.forwarded = <<wrapper.first>>

\* C25 witness: a receive returned no message, and the invocation ended with
\* the count decremented and fail called with the error made for it.
NoMessageFinalized ==
  /\ wrapper.pc = "done"
  /\ ~wrapper.handling
  /\ wrapper.first.error = "noMessage"
  /\ wrapper.decrements = 1
  /\ wrapper.deletes = 0
  /\ wrapper.forwarded = <<[mode |-> "fail", error |-> "noMessage",
                            result |-> None]>>

NoMessageOnlyLogged ==
  /\ \A s \in Coordinators :
       coordinators[s].pc = "done" => coordinators[s].doneError # "noMessage"
  /\ \A i \in Invokers :
       invokers[i].pc = "done" => invokers[i].doneError # "noMessage"
  /\ (wrapper.pc = "done" /\ "decrement" \in wrapper.failed) =>
       \/ wrapper.forwarded = <<wrapper.finalizing>>
       \/ wrapper.forwarded = <<[mode |-> "fail", error |-> wrapper.sendError,
                                 result |-> None]>>

\* C27: the wrapper logs a failed decrement and calls the original context
\* as it would have without it; the coordinator and the invoker log the error
\* of their decrement, that of a receive that found no message included, and
\* pass it to context.done, the coordinator after it has invoked its
\* successor and without uploading the confirmation file.
DecrementErrorPassedToDone ==
  /\ \A s \in Coordinators :
       LET c == coordinators[s] IN
       (c.pc = "done" /\ "decrement" \in c.failed) =>
         /\ c.error \in DecrementErrors
         /\ c.doneError = c.error
         /\ c.chains = 1
         /\ c.uploads = 0
  /\ \A i \in Invokers :
       (invokers[i].pc = "done" /\ "decrement" \in invokers[i].failed) =>
         invokers[i].doneError \in DecrementErrors
  /\ (wrapper.pc = "done" /\ "decrement" \in wrapper.failed) =>
       \/ wrapper.forwarded = <<wrapper.finalizing>>
       \/ wrapper.forwarded = <<[mode |-> "fail", error |-> wrapper.sendError,
                                 result |-> None]>>

\* C27 witness: the decrement of a coordinator of the first generation found
\* no message; the coordinator invoked its successor and called context.done
\* with that error.
NoMessagePassedToDone ==
  \E s \in Coordinators :
    /\ coordinators[s].pc = "done"
    /\ coordinators[s].generation = 1
    /\ coordinators[s].failed = {"decrement"}
    /\ coordinators[s].chained = 1
    /\ coordinators[s].doneError = "noMessage"

\* C28: of the functions given to executeConcurrently, never more than the
\* limit it was given are running at any one time.
RunningWithinLimit ==
  Cardinality(TasksIn("running")) <= executor.concurrency

\* C28 witness: as many functions as the limit allows are running while
\* others wait.
LimitReached ==
  /\ executor.concurrency = 2
  /\ Cardinality(TasksIn("running")) = 2
  /\ Cardinality(TasksIn("queued")) = 2

\* C29: every function given to executeConcurrently is called once, those
\* after a failed one too; the callback is called once, without an error,
\* when every function has called back and not before; without functions it
\* is called at once.
JoinAll ==
  /\ executor.callbacks <= 1
  /\ \A k \in DOMAIN executor.starts : executor.starts[k] <= 1
  /\ \A k \in TasksIn("running") \cup Completed : executor.starts[k] = 1
  /\ executor.callbacks = 1 <=> executor.pc = "returned"
  /\ executor.pc = "returned" =>
       /\ executor.error = None
       /\ Completed = DOMAIN executor.fns
       /\ executor.completed = Len(executor.fns)
       /\ executor.logged = Cardinality(TasksIn("failed"))
  /\ (executor.pc = "queued" /\ Completed = DOMAIN executor.fns) =>
       executor.callbacks = 1

\* C29 witness: the first function failed, the others were called all the
\* same, and the callback was called once all had called back.
CalledBackAfterFailure ==
  /\ executor.pc = "returned"
  /\ Len(executor.fns) = 3
  /\ executor.tasks = <<"failed", "done", "done">>
  /\ executor.callbacks = 1

\* The component of a name in the status of the coordinator.
Reported(name) ==
  CHOOSE c \in {counter.components[k] : k \in DOMAIN counter.components} :
    c.name = name

\* The invocation counts planned for a component.
Planned(name) ==
  {k \in DOMAIN counter.invocationCounts : counter.invocationCounts[k].name = name}

\* C30: when requests of message counts fail, determineApplicationStatus
\* still calls back without an error, with every component in the status and
\* exactly the fields null whose request failed; getInvocationCounts then
\* returns no count for an eventFromMessage component with a null field, and
\* for every other eventFromMessage component the count of its measurements.
FailedMeasurementLeftNull ==
  (counter.pc \in {"called", "returned"} /\ Len(executor.fns) > 0) =>
    /\ executor.callbacks = 1
    /\ executor.error = None
    /\ Len(counter.components) = Len(InternalComponents) + Len(StatusNames)
    /\ \A k \in DOMAIN InternalComponents :
         counter.components[k].name = InternalComponents[k].name
    /\ \A k \in DOMAIN StatusNames :
         counter.components[Len(InternalComponents) + k].name = StatusNames[k]
    /\ \A k \in DOMAIN counter.components :
         LET c == counter.components[k] IN
         /\ c.concurrency = Null <=>
              [name |-> c.name, field |-> "concurrency"] \in counter.failed
         /\ c.type = EVENT_FROM_MESSAGE =>
              (c.queuedMessageCount = Null <=>
                 [name |-> c.name, field |-> "queuedMessageCount"] \in counter.failed)
    /\ counter.pc = "returned" =>
         \A k \in DOMAIN counter.components :
           LET c == counter.components[k] IN
           IF c.type = EVENT_FROM_MESSAGE /\ c.concurrency # Null
                                         /\ c.queuedMessageCount # Null
             THEN \E j \in DOMAIN counter.invocationCounts :
                    /\ Planned(c.name) = {j}
                    /\ counter.invocationCounts[j].count =
                         InvocationCountOf(c, counter.coordinatorConcurrency)
             ELSE Planned(c.name) = {}

\* C30 witness: of two eventFromMessage components the request of the
\* concurrency of the first failed alone; the first got no invocation count
\* and the second the count of its one message.
OneMeasurementFailed ==
  /\ counter.pc = "returned"
  /\ counter.failed = {[name |-> StatusNames[1], field |-> "concurrency"]}
  /\ Reported(StatusNames[1]).type = EVENT_FROM_MESSAGE
  /\ Reported(StatusNames[1]).queuedMessageCount = 1
  /\ Reported(StatusNames[2]).type = EVENT_FROM_MESSAGE
  /\ Reported(StatusNames[2]).queuedMessageCount = 1
  /\ Reported(StatusNames[2]).concurrency = 0
  /\ counter.invocationCounts = <<[name |-> StatusNames[2], count |-> 1]>>

\* C31: retry calls the function at most retryLimit = 3 times; it calls
\* back once, at the first call of the function that yields no error, with
\* what that call yielded, or after the third error in a row with the error
\* of the third call; every earlier call yielded an error, which was logged.
RetryAtMostThreeTimes ==
  /\ retrier.attempts <= 3
  /\ Len(retrier.callbacks) <= 1
  /\ Len(retrier.callbacks) = 1 <=> retrier.pc = "returned"
  /\ retrier.pc = "returned" =>
       /\ Len(retrier.yielded) = retrier.attempts
       /\ retrier.callbacks[1] = retrier.yielded[retrier.attempts]
       /\ retrier.callbacks[1][1] # Undefined => retrier.attempts = 3
       /\ \A n \in 1 .. retrier.attempts - 1 :
            /\ retrier.yielded[n][1] # Undefined
            /\ retrier.logged[n] = <<retrier.retryErrorMessage, retrier.yielded[n][1]>>
       /\ Len(retrier.logged) = retrier.attempts - 1

\* C31 witness: three calls failed with three different errors and the
\* callback got the third.
ThirdErrorSurfaced ==
  /\ retrier.pc = "returned"
  /\ retrier.yielded = << <<1, Undefined>>, <<2, Undefined>>, <<3, Undefined>> >>
  /\ retrier.callbacks = << <<3, Undefined>> >>

\* C32: an invoker invokes the functions of its event exactly when its load
\* of the ARN map succeeded. After a failed load it calls neither
\* incrementConcurrencyCount nor decrementConcurrencyCount, invokes nothing
\* and passes the error to context.done; after a failed increment it still
\* invokes, and context.done gets no error of the increment.
InvokerDispatchesIffLoaded ==
  \A i \in Invokers :
    LET v == invokers[i] IN
    /\ "dispatch" \in v.steps => "loadArnMap" \in v.steps \ v.failed
    /\ (v.pc = "done" /\ "loadArnMap" \notin v.failed) => "dispatch" \in v.steps
    /\ "loadArnMap" \in v.failed =>
         /\ v.steps = {"loadArnMap"}
         /\ v.increments = 0
         /\ v.decrements = 0
         /\ v.pc = "done"
         /\ v.dones = 1
         /\ v.doneError = "loadArnMap"
    /\ (v.pc = "done" /\ "increment" \in v.failed) =>
         /\ "dispatch" \in v.steps
         /\ v.doneError = NoError

\* C32 witness: the increment of an invoker failed, and the invoker went on
\* to invoke a function and ended without an error.
InvokedAfterFailedIncrement ==
  \E i \in Invokers :
    /\ invokers[i].pc = "done"
    /\ invokers[i].failed = {"increment"}
    /\ invokers[i].invocationCounts # <<>>
    /\ invokers[i].doneError = NoError
    /\ \E n \in DOMAIN invoked : invoked[n] > 0

\* The tasks of the series up to a given one.
TasksUpTo(n) == SubSeq(SwitchoverTasks, 1, n)

\* C33: the switchover function of the configuration is called only when the
\* ARN map was made and uploaded, the coordinators invoked and the
\* confirmation file seen, in this order and each without error; when one of
\* them fails, that of a timeout included, it is never called and the
\* callback gets the error.
SwitchoverAfterAllSucceeded ==
  /\ deployer.switchovers <= 1
  /\ \E n \in 1 .. Len(SwitchoverTasks) : deployer.tasks = TasksUpTo(n)
  /\ deployer.switchovers = 1 =>
       /\ deployer.tasks = SwitchoverTasks
       /\ deployer.failed \subseteq {"invokeProvidedSwitchoverFunction"}
       /\ deployer.seeded = deployer.coordinatorConcurrency
       /\ deployer.confirmationFileExists
       /\ ~deployer.timedOut
  /\ (\/ deployer.failed \ {"invokeProvidedSwitchoverFunction"} # {}
      \/ /\ deployer.timedOut
         /\ deployer.pc \notin {"awaitApplicationConfirmation",
                                "applicationConfirmationExists"}) =>
       /\ deployer.switchovers = 0
       /\ deployer.pc = "returned"
       /\ deployer.callbacks = 1
       /\ deployer.error # None

\* C33 witness: the confirmation timed out and the switchover function of
\* the configuration was not called.
TimedOutWithoutSwitchover ==
  /\ deployer.pc = "returned"
  /\ deployer.provided
  /\ deployer.error = "timeout"
  /\ deployer.switchovers = 0
  /\ Len(deployer.tasks) = 4

\* awaitApplicationConfirmation has called back.
AwaitEnded ==
  /\ Len(deployer.tasks) >= 4
  /\ deployer.pc \in {"invokeProvidedSwitchoverFunction", "returned"}

\* The error awaitApplicationConfirmation called back with.
AwaitReported ==
  IF Len(deployer.tasks) = 5 THEN None ELSE deployer.error

\* The requests for the confirmation file are 2 seconds apart at least, none
\* is made after one has seen the file, failed or returned after the timer,
\* and there are minInterval + 2 at most.
PolledEveryTwoSeconds ==
  /\ deployer.checks = Len(deployer.checkedAt)
  /\ \A k \in DOMAIN deployer.checkedAt :
       deployer.checkedAt[k] >= PollPause * k
  /\ \A k \in 2 .. Len(deployer.checkedAt) :
       deployer.checkedAt[k] - deployer.checkedAt[k - 1] >= PollPause
  /\ deployer.checks <= deployer.minInterval + 2
  /\ deployer.pc = "awaitApplicationConfirmation" =>
       /\ ~deployer.confirmationFileExists
       /\ ~deployer.timedOut
       /\ deployer.failed = {}

SwitchoverWithoutFaults ==
  (/\ deployer.pc = "returned"
   /\ deployer.provided
   /\ deployer.failed = {}
   /\ deployer.checks = 1
   /\ deployer.now = PollPause
   /\ deployer.confirmationFileExists) =>
    /\ deployer.switchovers = 1
    /\ deployer.error = None

\* The count of a component in a list of invocation counts.
RECURSIVE CountOf(_, _)
CountOf(name, invocationCounts) ==
  IF invocationCounts = <<>>
    THEN 0
    ELSE (IF Head(invocationCounts).name = name THEN Head(invocationCounts).count
                                                ELSE 0)
         + CountOf(name, Tail(invocationCounts))

\* The count of a component over the sets for other invokers.
RECURSIVE CountOfSets(_, _)
CountOfSets(name, sets) ==
  IF sets = <<>>
    THEN 0
    ELSE CountOf(name, Head(sets)) + CountOfSets(name, Tail(sets))

\* C35: for every component, its counts in localInvoker and in all the sets
\* of otherInvoker that splitInvocationCounts returns add up to its count in
\* the argument.
SplitConservesCounts ==
  splitter.pc = "returned" =>
    \A k \in DOMAIN SplitterNames :
      CountOf(SplitterNames[k], splitter.split.localInvoker)
        + CountOfSets(SplitterNames[k], splitter.split.otherInvoker)
      = CountOf(SplitterNames[k], splitter.invocationCounts)

\* C35 witness: the count of a component was divided between this instance
\* and two other invokers.
CountDividedThreeWays ==
  /\ splitter.pc = "returned"
  /\ Len(splitter.split.otherInvoker) >= 2
  /\ \E k \in DOMAIN SplitterNames :
       /\ CountOf(SplitterNames[k], splitter.split.localInvoker) > 0
       /\ CountOf(SplitterNames[k], splitter.split.otherInvoker[1]) > 0
       /\ CountOf(SplitterNames[k], splitter.split.otherInvoker[2]) > 0

\* C36: every set splitInvocationCounts returns for another invoker sums to
\* less than the counts it was given, for every maxInvocationCount from 1
\* up, and a sum within maxInvocationCount leaves all to this instance: an
\* invoker invoked with such a set has less to split than the one before it.
OtherInvokersGetLess ==
  splitter.pc = "returned" =>
    /\ \A k \in DOMAIN splitter.split.otherInvoker :
         sumOfInvocationCounts(splitter.split.otherInvoker[k]) < SplitterTotal
    /\ SplitterTotal <= splitter.maxInvocationCount =>
         /\ splitter.split.otherInvoker = <<>>
         /\ splitter.split.localInvoker = splitter.invocationCounts

\* C36 witness: with maxInvocationCount = 1 the set of the remainder, larger
\* than maxInvocationCount, is still smaller than the counts given.
LargeRemainderGetsLess ==
  /\ splitter.pc = "returned"
  /\ splitter.maxInvocationCount = 1
  /\ Len(splitter.split.otherInvoker) = 2
  /\ sumOfInvocationCounts(splitter.split.otherInvoker[2]) > 1

\* The coordinator chains an invocation stands for: itself until it has
\* invoked its successor, and the events it sent past the horizon of the
\* generations, which are not held in flight.
ChainsOf(c) ==
  (IF c.pc \in {"idle", "done", "confirm"} THEN 0 ELSE 1)
  + (IF c.generation >= MaxGeneration
       THEN c.extras + (IF c.chained # NoGeneration THEN 1 ELSE 0)
       ELSE 0)

\* The coordinator chains alive: the events in flight and the chains the
\* invocations stand for.
LiveChains ==
  LET Sum[s \in 0 .. MaxCoordinators] ==
        IF s = 0 THEN 0 ELSE ChainsOf(coordinators[s]) + Sum[s - 1]
  IN InFlightTotal + Sum[MaxCoordinators]

\* C37 as claimed: however the coordinators interleave, there are never more
\* coordinator chains alive than coordinatorConcurrency.
ChainsWithinConcurrency ==
  LiveChains <= coordinatorConcurrency

\* A request of a coordinator that is running or has ended has failed.
RequestFailed ==
  \E s \in Coordinators : coordinators[s].failed # {}

IntervalFloor ==
  \A s \in Coordinators :
    LET c == coordinators[s] IN
    c.chainedAt # Null =>
      c.chainedAt >= Min(config.minInterval, Timeout - SafetyMargin)

\* C13: the delay ensureInterval gives to setTimeout is the smaller of the
\* rest of the interval and the time left less the safety margin, neither
\* below zero; a sleep never reaches into the safety margin.
SleepWithinTimeLimit ==
  \A s \in Coordinators :
    LET c == coordinators[s]
        remainingTime == Timeout - c.sleepAt IN
    c.slept # Null =>
      /\ c.slept = Min(Max(0, config.minInterval - c.sleepAt),
                       Max(0, remainingTime - SafetyMargin))
      /\ c.slept > 0 => c.sleepAt + c.slept <= Timeout - SafetyMargin

\* C13 witness: a coordinator slept for less than the rest of the interval,
\* up to the safety margin.
SleepCutShort ==
  \E s \in Coordinators :
    LET c == coordinators[s] IN
    /\ c.slept # Null
    /\ c.slept > 0
    /\ c.slept < config.minInterval - c.sleepAt
    /\ c.sleepAt + c.slept = Timeout - SafetyMargin

\* C10 as claimed: once the ARN map is loaded, every task of the series has
\* run by the time the final callback is reached, whichever of them failed
\* (the decrement excepted when the increment failed).
EveryStepRuns ==
  \A s \in Coordinators :
    LET c == coordinators[s] IN
    (Loaded(c) /\ c.pc \in {"chain", "confirm", "done"}) =>
      /\ {"increment", "measure", "redundancy", "dispatch", "sleep"} \subseteq c.steps
      /\ Incremented(c) => "decrement" \in c.steps

====
